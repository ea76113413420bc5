------------------------ MODULE DriverSessionsProofs ------------------------
(***************************************************************************)
(* Theorems about DriverSessions, for any sets of sessions, transports and *)
(* hooks and any finite set of client threads.                             *)
(***************************************************************************)
EXTENDS DriverSessions, FiniteSetTheorems, TLAPS

-----------------------------------------------------------------------------
(* Type correctness.  What a thread is about goes with where it is: an end *)
(* carries a reason, and only keepers hold a batch.                        *)

Ending == {"idle", "matchTombstone", "decide", "forget", "mark", "clear",
           "install", "sweep", "revoke", "batch"}

AimsFit ==
  \A t \in Threads :
    /\ pc[t] \in Ending => aim[t] \in Reasons
    /\ pc[t] \in {"retry", "hooks"} => aim[t] \in Reasons \cup {"start"}
    /\ pc[t] \in {"admitted", "working", "escalate", "returning"} => aim[t] = "dispatch"
    /\ pc[t] = "activate" => aim[t] = "start"
    /\ pc[t] \in {"bind", "insert"} => aim[t] \in {"start", "revive"}
    /\ pc[t] = "announce" => aim[t] = "revive"
    /\ pc[t] = "touch" => aim[t] \in {"dispatch", "start", "revive"}
    /\ aim[t] \in {"dispatch", "start"} => via[t] \in Owners
    /\ pc[t] = "insert" => asks[t] # "none"
    /\ t \in Clients => batch[t] = {}
    /\ t \in Keepers => pc[t] \in Ending \cup {"retry", "hooks"} /\ aim[t] \in Reasons

Typed == SessionsTypeOK /\ AimsFit

\* Every initial state is typed and fits.
LEMMA InitTyped == Init => Typed
<1> SUFFICES ASSUME Init PROVE Typed
  OBVIOUS
<1> USE DriverConstants DEF Init, Typed, Threads, PCs, Reasons, Ending
<1>1. SessionsTypeOK
  BY DEF SessionsTypeOK
<1>2. AimsFit
  BY DEF AimsFit
<1> QED
  BY <1>1, <1>2

\* Every action keeps the types and the fit of aims and places.
LEMMA StepTyped ==
  ASSUME Typed, Next
  PROVE  Typed'
<1> USE DriverConstants DEF Typed, SessionsTypeOK, AimsFit, Ending, PCs, Reasons, Threads,
    GoTo, GoOn, Finish, Bound, Report,
      recordVars, tombVars, cleanupVars, scopeVars, purpose, localVars
<1>1. ASSUME NEW t \in Clients, NEW o \in Owners, NEW s \in Sessions, Admit(t, o, s) PROVE Typed'
  BY <1>1 DEF Admit
<1>2. ASSUME NEW t \in Clients, NEW o \in Owners, NEW s \in Sessions, NEW p \in Policies \cup {"none"}, Start(t, o, s, p) PROVE Typed'
  BY <1>2 DEF Start
<1>3. ASSUME NEW t \in Clients, NEW o \in Owners, NEW s \in Sessions, EndTool(t, o, s) PROVE Typed'
  BY <1>3 DEF EndTool
<1>4. ASSUME NEW t \in Clients, Begin(t) PROVE Typed'
  BY <1>4 DEF Begin
<1>5. ASSUME NEW t \in Clients, Escalate(t) PROVE Typed'
  BY <1>5 DEF Escalate
<1>6. ASSUME NEW t \in Clients, Unlock(t) PROVE Typed'
  BY <1>6 DEF Unlock
<1>7. ASSUME NEW t \in Clients, DropGuard(t) PROVE Typed'
  <2> DEFINE s == sess[t]
             left == IF inFlight[s] = 0 THEN 0 ELSE inFlight[s] - 1
  <2>1. /\ s \in Sessions /\ left \in Nat /\ batch[t] = {} /\ t \in Threads
        /\ pc[t] \in {"working", "returning"}
        /\ pendingEnd[s] \in Reasons \cup {"none"}
    BY <1>7 DEF DropGuard
  <2>2. CASE ~Live(s)
    BY <1>7, <2>1, <2>2 DEF DropGuard
  <2>3. CASE Live(s)
    <3>1. /\ inFlight' = [inFlight EXCEPT ![s] = left]
          /\ activity' = [activity EXCEPT ![s] = "fresh"]
          /\ UNCHANGED <<owner, tombVars, cleanupVars, scopeVars, suspended, torn,
                        recycled, sess, localVars>>
      BY <1>7, <2>3 DEF DropGuard
    <3>2. \/ /\ pendingEnd[s] # "none"
             /\ pendingEnd' = [pendingEnd EXCEPT ![s] = "none"]
             /\ pc' = [pc EXCEPT ![t] = "forget"]
             /\ aim' = [aim EXCEPT ![t] = pendingEnd[s]]
             /\ UNCHANGED <<via, asks>>
          \/ /\ Finish(t) /\ UNCHANGED pendingEnd
      BY <1>7, <2>3 DEF DropGuard
    <3> HIDE DEF s, left
    <3>3. CASE Finish(t) /\ UNCHANGED pendingEnd
      BY <2>1, <3>1, <3>3
    <3>4. CASE ~(Finish(t) /\ UNCHANGED pendingEnd)
      BY <2>1, <3>1, <3>2, <3>4
    <3> QED BY <3>3, <3>4
  <2> QED BY <2>2, <2>3
<1>8. ASSUME NEW t \in Clients, Activate(t) PROVE Typed'
  BY <1>8, SMTT(40) DEF Activate
<1>9. ASSUME NEW t \in Clients, Bind(t) PROVE Typed'
  BY <1>9 DEF Bind
<1>10. ASSUME NEW t \in Clients, BindInsert(t) PROVE Typed'
  BY <1>10 DEF BindInsert
<1>11. ASSUME NEW t \in Clients, Announce(t) PROVE Typed'
  BY <1>11 DEF Announce
<1>12. ASSUME NEW t \in Clients, MatchTombstone(t) PROVE Typed'
  BY <1>12 DEF MatchTombstone
<1>13. ASSUME NEW t \in Keepers, SweepRecords(t) PROVE Typed'
  BY <1>13 DEF SweepRecords
<1>14. ASSUME NEW t \in Keepers, RevokeAll(t) PROVE Typed'
  BY <1>14 DEF RevokeAll
<1>15. ASSUME NEW t \in Keepers, NEW o \in Owners, CloseTransport(t, o) PROVE Typed'
  BY <1>15 DEF CloseTransport
<1>16. ASSUME NEW t \in Keepers, SweepActivity(t) PROVE Typed'
  BY <1>16 DEF SweepActivity
<1>17. ASSUME NEW t \in Keepers, RevokeSnapshot(t) PROVE Typed'
  BY <1>17 DEF RevokeSnapshot
<1>18. ASSUME NEW t \in Keepers, NextInBatch(t) PROVE Typed'
  BY <1>18 DEF NextInBatch
<1>19. ASSUME NEW t \in Threads, Decide(t) PROVE Typed'
  BY <1>19, SMTT(40) DEF Decide
<1>20. ASSUME NEW t \in Threads, ForgetActivity(t) PROVE Typed'
  BY <1>20 DEF ForgetActivity
<1>21. ASSUME NEW t \in Threads, Mark(t) PROVE Typed'
  BY <1>21 DEF Mark
<1>22. ASSUME NEW t \in Threads, ClearScope(t) PROVE Typed'
  BY <1>22 DEF ClearScope
<1>23. ASSUME NEW t \in Threads, InstallProgress(t) PROVE Typed'
  BY <1>23 DEF InstallProgress
<1>24. ASSUME NEW t \in Threads, RetryBegin(t) PROVE Typed'
  BY <1>24 DEF RetryBegin
<1>25. ASSUME NEW t \in Threads, RetryEnd(t) PROVE Typed'
  BY <1>25 DEF RetryEnd
<1>26. ASSUME NEW t \in Threads, Touch(t) PROVE Typed'
  BY <1>26 DEF Touch
<1>27. ASSUME NEW t \in Threads, NEW h \in Hooks, NEW b \in BOOLEAN, RunHook(t, h, b) PROVE Typed'
  BY <1>27 DEF RunHook
<1>28. ASSUME NEW s \in Sessions, Idle(s) PROVE Typed'
  BY <1>28 DEF Idle
<1> HIDE DriverConstants DEF Typed, SessionsTypeOK, AimsFit, Ending, PCs, Reasons, GoTo,
    GoOn, Finish, Bound, Report,
      recordVars, tombVars, cleanupVars, scopeVars, purpose, localVars
<1> QED BY <1>1, <1>2, <1>3, <1>4, <1>5, <1>6, <1>7, <1>8, <1>9, <1>10, <1>11, <1>12, <1>13,
    <1>14, <1>15, <1>16, <1>17, <1>18, <1>19, <1>20, <1>21, <1>22, <1>23, <1>24, <1>25,
        <1>26, <1>27, <1>28 DEF Next, Call, Keep, EndStep

\* A step that changes nothing keeps the types.
LEMMA StutterTyped ==
  ASSUME Typed, UNCHANGED vars
  PROVE  Typed'
  BY DEF Typed, SessionsTypeOK, AimsFit, vars, recordVars, tombVars, cleanupVars,
         scopeVars, purpose, localVars

\* A call that is about to open a record came through some transport.
LEMMA CallerKnown ==
  ASSUME Typed, NEW t \in Clients, pc[t] \in {"admitted", "activate"}
  PROVE  via[t] \in Owners /\ via[t] # NoOwner /\ sess[t] \in Sessions
  BY DriverConstants DEF Typed, SessionsTypeOK, AimsFit, Threads

\* The types and the aims of the threads hold in every reachable state
\* (session.rs, the whole registry).
THEOREM TypedHolds == Spec => []Typed
<1>1. Typed /\ [Next]_vars => Typed'
  BY StepTyped, StutterTyped
<1> QED BY InitTyped, <1>1, PTL DEF Spec

\* The registry, the cleanup tables and the threads keep their types: no
\* interleaving leaves a count below zero or an end without a reason.
THEOREM SessionsTypeCorrect == Spec => []SessionsTypeOK
<1>1. Typed => SessionsTypeOK
  BY DEF Typed
<1> QED BY TypedHolds, <1>1, PTL

-----------------------------------------------------------------------------
(* Who changes what.                                                       *)

\* Outside the five critical sections over the records, nothing there changes.
Quiet == UNCHANGED <<owner, inFlight, pendingEnd, tombstones, buriedFor>>

\* Only begin, activate, a guard's drop, mark and decide touch the records.
LEMMA WhoWritesRecords ==
  ASSUME Next
  PROVE  \/ Quiet
         \/ \E t \in Clients : Begin(t) \/ Activate(t) \/ DropGuard(t)
         \/ \E t \in Threads : Mark(t) \/ Decide(t)
<1>1. ASSUME NEW t \in Clients, NEW o \in Owners, NEW s \in Sessions, Admit(t, o, s) PROVE Quiet
  BY <1>1 DEF Admit, Quiet, recordVars, tombVars
<1>2. ASSUME NEW t \in Clients, NEW o \in Owners, NEW s \in Sessions, NEW p \in Policies \cup {"none"}, Start(t, o, s, p) PROVE Quiet
  BY <1>2 DEF Start, Quiet, recordVars, tombVars
<1>3. ASSUME NEW t \in Clients, NEW o \in Owners, NEW s \in Sessions, EndTool(t, o, s) PROVE Quiet
  BY <1>3 DEF EndTool, Quiet, recordVars, tombVars
<1>4. ASSUME NEW t \in Clients, Escalate(t) PROVE Quiet
  BY <1>4 DEF Escalate, Quiet, recordVars, tombVars
<1>5. ASSUME NEW t \in Clients, Unlock(t) PROVE Quiet
  BY <1>5 DEF Unlock, Quiet, recordVars, tombVars
<1>6. ASSUME NEW t \in Clients, Bind(t) PROVE Quiet
  BY <1>6 DEF Bind, Quiet, recordVars, tombVars
<1>7. ASSUME NEW t \in Clients, BindInsert(t) PROVE Quiet
  BY <1>7 DEF BindInsert, Quiet, recordVars, tombVars
<1>8. ASSUME NEW t \in Clients, Announce(t) PROVE Quiet
  BY <1>8 DEF Announce, Quiet, recordVars, tombVars
<1>9. ASSUME NEW t \in Clients, MatchTombstone(t) PROVE Quiet
  BY <1>9 DEF MatchTombstone, Quiet, recordVars, tombVars
<1>10. ASSUME NEW t \in Keepers, SweepRecords(t) PROVE Quiet
  BY <1>10 DEF SweepRecords, Quiet, recordVars, tombVars
<1>11. ASSUME NEW t \in Keepers, RevokeAll(t) PROVE Quiet
  BY <1>11 DEF RevokeAll, Quiet, recordVars, tombVars
<1>12. ASSUME NEW t \in Keepers, NEW o \in Owners, CloseTransport(t, o) PROVE Quiet
  BY <1>12 DEF CloseTransport, Quiet, recordVars, tombVars
<1>13. ASSUME NEW t \in Keepers, SweepActivity(t) PROVE Quiet
  BY <1>13 DEF SweepActivity, Quiet, recordVars, tombVars
<1>14. ASSUME NEW t \in Keepers, RevokeSnapshot(t) PROVE Quiet
  BY <1>14 DEF RevokeSnapshot, Quiet, recordVars, tombVars
<1>15. ASSUME NEW t \in Keepers, NextInBatch(t) PROVE Quiet
  BY <1>15 DEF NextInBatch, Quiet, recordVars, tombVars
<1>16. ASSUME NEW t \in Threads, ForgetActivity(t) PROVE Quiet
  BY <1>16 DEF ForgetActivity, Quiet, recordVars, tombVars
<1>17. ASSUME NEW t \in Threads, ClearScope(t) PROVE Quiet
  BY <1>17 DEF ClearScope, Quiet, recordVars, tombVars
<1>18. ASSUME NEW t \in Threads, InstallProgress(t) PROVE Quiet
  BY <1>18 DEF InstallProgress, Quiet, recordVars, tombVars
<1>19. ASSUME NEW t \in Threads, RetryBegin(t) PROVE Quiet
  BY <1>19 DEF RetryBegin, Quiet, recordVars, tombVars
<1>20. ASSUME NEW t \in Threads, RetryEnd(t) PROVE Quiet
  BY <1>20 DEF RetryEnd, Quiet, recordVars, tombVars
<1>21. ASSUME NEW t \in Threads, Touch(t) PROVE Quiet
  BY <1>21 DEF Touch, Quiet, recordVars, tombVars
<1>22. ASSUME NEW t \in Threads, NEW h \in Hooks, NEW b \in BOOLEAN, RunHook(t, h, b) PROVE Quiet
  BY <1>22 DEF RunHook, Quiet, recordVars, tombVars
<1>23. ASSUME NEW s \in Sessions, Idle(s) PROVE Quiet
  BY <1>23 DEF Idle, Quiet, recordVars, tombVars
<1> QED BY <1>1, <1>2, <1>3, <1>4, <1>5, <1>6, <1>7, <1>8, <1>9, <1>10, <1>11, <1>12, <1>13,
    <1>14, <1>15, <1>16, <1>17, <1>18, <1>19, <1>20, <1>21, <1>22, <1>23 DEF Next, Call,
        Keep, EndStep

-----------------------------------------------------------------------------
(* The registry keeps SessionContract.  An end may find its session gone,  *)
(* never unopened: what a keeper or a client decides to end was live once, *)
(* and an id once live is live or ended ever after.                        *)

Opened(s) == Live(s) \/ Ended(s)

BuriedFit ==
  \A s \in Sessions :
    /\ ~(Live(s) /\ Ended(s))
    /\ Ended(s) <=> buriedFor[s] # NoOwner

KnownFit ==
  /\ \A s \in Sessions : activity[s] # "none" => Opened(s)
  /\ \A t \in Threads :
       /\ pc[t] \in {"touch", "decide", "forget", "mark"} => Opened(sess[t])
       /\ pc[t] # "sweep" => \A s \in batch[t] : Opened(s)

\* No id is live, ended, active or in a thread's hands at the start.
LEMMA InitFit == Init => BuriedFit /\ KnownFit
  BY DEF Init, BuriedFit, KnownFit, Opened, Live, Ended

\* A record and a tombstone of one id never coexist, and every tombstone has an
\* owner: mark has a record to take it from.
LEMMA BuriedStep ==
  ASSUME Typed, BuriedFit, KnownFit, Next
  PROVE  BuriedFit'
<1> USE DriverConstants DEF Typed, SessionsTypeOK, BuriedFit, KnownFit, Opened, Live, Ended,
    Threads
<1>1. CASE Quiet
  BY <1>1 DEF Quiet
<1>2. ASSUME NEW t \in Clients, Begin(t) PROVE BuriedFit'
  BY <1>2 DEF Begin, tombVars
<1>3. ASSUME NEW t \in Clients, Activate(t) PROVE BuriedFit'
  BY <1>3 DEF Activate, tombVars
<1>4. ASSUME NEW t \in Threads, Mark(t) PROVE BuriedFit'
  BY <1>4 DEF Mark
<1>5. ASSUME NEW t \in Clients, DropGuard(t) PROVE BuriedFit'
  BY <1>5 DEF DropGuard, tombVars
<1>6. ASSUME NEW t \in Threads, Decide(t) PROVE BuriedFit'
  BY <1>6 DEF Decide, tombVars
<1> HIDE DriverConstants DEF Typed, SessionsTypeOK, BuriedFit, KnownFit, Opened, Live, Ended,
    Threads
<1> QED BY <1>1, <1>2, <1>3, <1>4, <1>5, <1>6, WhoWritesRecords

\* An id that was opened is live or ended from then on.
LEMMA OpenedGrows ==
  ASSUME Typed, Next, NEW s \in Sessions, Opened(s)
  PROVE  Opened(s)'
<1> USE DriverConstants DEF Typed, SessionsTypeOK, Opened, Live, Ended, Threads
<1>1. CASE Quiet
  BY <1>1 DEF Quiet
<1>2. ASSUME NEW t \in Clients, Begin(t) PROVE Opened(s)'
  BY <1>2 DEF Begin, tombVars
<1>3. ASSUME NEW t \in Clients, Activate(t) PROVE Opened(s)'
  BY <1>3, CallerKnown DEF Activate, tombVars
<1>4. ASSUME NEW t \in Threads, Mark(t) PROVE Opened(s)'
  BY <1>4 DEF Mark
<1>5. ASSUME NEW t \in Clients, DropGuard(t) PROVE Opened(s)'
  BY <1>5 DEF DropGuard, tombVars
<1>6. ASSUME NEW t \in Threads, Decide(t) PROVE Opened(s)'
  BY <1>6 DEF Decide, tombVars
<1> HIDE DriverConstants DEF Typed, SessionsTypeOK, Opened, Live, Ended, Threads
<1> QED BY <1>1, <1>2, <1>3, <1>4, <1>5, <1>6, WhoWritesRecords

\* Activity entries and ends are about opened ids only.
LEMMA KnownStep ==
  ASSUME Typed, BuriedFit, KnownFit, Next
  PROVE  KnownFit'
<1>0. \A s \in Sessions : Opened(s) => Opened(s)'
  BY OpenedGrows
<1> USE <1>0, DriverConstants DEF Typed, SessionsTypeOK, KnownFit, Threads
<1>1. ASSUME NEW t \in Clients, NEW o \in Owners, NEW s \in Sessions, Admit(t, o, s) PROVE KnownFit'
  BY <1>1 DEF Admit, GoTo, GoOn, Finish, Bound, Report, localVars, Opened, Live, Ended
<1>2. ASSUME NEW t \in Clients, NEW o \in Owners, NEW s \in Sessions, NEW p \in Policies \cup {"none"}, Start(t, o, s, p) PROVE KnownFit'
  BY <1>2 DEF Start, GoTo, GoOn, Finish, Bound, Report, localVars, Opened, Live, Ended
<1>3. ASSUME NEW t \in Clients, NEW o \in Owners, NEW s \in Sessions, EndTool(t, o, s) PROVE KnownFit'
  BY <1>3 DEF EndTool, GoTo, GoOn, Finish, Bound, Report, localVars, Opened, Live, Ended
<1>4. ASSUME NEW t \in Clients, Begin(t) PROVE KnownFit'
  BY <1>4, CallerKnown DEF Begin, GoTo, GoOn, Finish, localVars, Opened, Live, Ended
<1>5. ASSUME NEW t \in Clients, Escalate(t) PROVE KnownFit'
  BY <1>5 DEF Escalate, GoTo, GoOn, Finish, Bound, Report, localVars, Opened, Live, Ended
<1>6. ASSUME NEW t \in Clients, Unlock(t) PROVE KnownFit'
  BY <1>6 DEF Unlock, GoTo, GoOn, Finish, Bound, Report, localVars, Opened, Live, Ended
<1>7. ASSUME NEW t \in Clients, DropGuard(t) PROVE KnownFit'
  BY <1>7 DEF DropGuard, GoTo, GoOn, Finish, Bound, Report, localVars, Opened, Live, Ended
<1>8. ASSUME NEW t \in Clients, Activate(t) PROVE KnownFit'
  BY <1>8, CallerKnown DEF Activate, GoTo, GoOn, Finish, localVars, Opened, Live, Ended
<1>9. ASSUME NEW t \in Clients, Bind(t) PROVE KnownFit'
  BY <1>9 DEF Bind, GoTo, GoOn, Finish, Bound, Report, localVars, Opened, Live, Ended
<1>10. ASSUME NEW t \in Clients, BindInsert(t) PROVE KnownFit'
  BY <1>10 DEF BindInsert, GoTo, GoOn, Finish, Bound, Report, localVars, Opened, Live, Ended
<1>11. ASSUME NEW t \in Clients, Announce(t) PROVE KnownFit'
  BY <1>11 DEF Announce, GoTo, GoOn, Finish, Bound, Report, localVars, Opened, Live, Ended
<1>12. ASSUME NEW t \in Clients, MatchTombstone(t) PROVE KnownFit'
  BY <1>12 DEF MatchTombstone, GoTo, GoOn, Finish, Bound, Report, localVars, Opened, Live, Ended
<1>13. ASSUME NEW t \in Keepers, SweepRecords(t) PROVE KnownFit'
  BY <1>13 DEF SweepRecords, GoTo, GoOn, Finish, Bound, Report, localVars, Opened, Live, Ended
<1>14. ASSUME NEW t \in Keepers, RevokeAll(t) PROVE KnownFit'
  BY <1>14 DEF RevokeAll, GoTo, GoOn, Finish, Bound, Report, localVars, Opened, Live, Ended
<1>15. ASSUME NEW t \in Keepers, NEW o \in Owners, CloseTransport(t, o) PROVE KnownFit'
  BY <1>15 DEF CloseTransport, GoTo, GoOn, Finish, Bound, Report, localVars, Opened, Live, Ended
<1>16. ASSUME NEW t \in Keepers, SweepActivity(t) PROVE KnownFit'
  BY <1>16 DEF SweepActivity, GoTo, GoOn, Finish, Bound, Report, localVars, Opened, Live, Ended
<1>17. ASSUME NEW t \in Keepers, RevokeSnapshot(t) PROVE KnownFit'
  BY <1>17 DEF RevokeSnapshot, GoTo, GoOn, Finish, Bound, Report, localVars, Opened, Live, Ended
<1>18. ASSUME NEW t \in Keepers, NextInBatch(t) PROVE KnownFit'
  BY <1>18 DEF NextInBatch, GoTo, GoOn, Finish, Bound, Report, localVars, Opened, Live, Ended
<1>19. ASSUME NEW t \in Threads, Decide(t) PROVE KnownFit'
  BY <1>19 DEF Decide, GoTo, GoOn, Finish, Bound, Report, localVars, Opened, Live, Ended
<1>20. ASSUME NEW t \in Threads, ForgetActivity(t) PROVE KnownFit'
  BY <1>20 DEF ForgetActivity, GoTo, GoOn, Finish, Bound, Report, localVars, Opened, Live, Ended
<1>21. ASSUME NEW t \in Threads, Mark(t) PROVE KnownFit'
  BY <1>21 DEF Mark, GoTo, GoOn, Finish, Bound, Report, localVars, Opened, Live, Ended
<1>22. ASSUME NEW t \in Threads, ClearScope(t) PROVE KnownFit'
  BY <1>22 DEF ClearScope, GoTo, GoOn, Finish, Bound, Report, localVars, Opened, Live, Ended
<1>23. ASSUME NEW t \in Threads, InstallProgress(t) PROVE KnownFit'
  BY <1>23 DEF InstallProgress, GoTo, GoOn, Finish, Bound, Report, localVars, Opened, Live,
      Ended
<1>24. ASSUME NEW t \in Threads, RetryBegin(t) PROVE KnownFit'
  BY <1>24 DEF RetryBegin, GoTo, GoOn, Finish, Bound, Report, localVars, Opened, Live, Ended
<1>25. ASSUME NEW t \in Threads, RetryEnd(t) PROVE KnownFit'
  BY <1>25 DEF RetryEnd, GoTo, GoOn, Finish, Bound, Report, localVars, Opened, Live, Ended
<1>26. ASSUME NEW t \in Threads, Touch(t) PROVE KnownFit'
  BY <1>26 DEF Touch, GoTo, GoOn, Finish, Bound, Report, localVars, Opened, Live, Ended
<1>27. ASSUME NEW t \in Threads, NEW h \in Hooks, NEW b \in BOOLEAN, RunHook(t, h, b) PROVE KnownFit'
  BY <1>27 DEF RunHook, GoTo, GoOn, Finish, Bound, Report, localVars, Opened, Live, Ended
<1>28. ASSUME NEW s \in Sessions, Idle(s) PROVE KnownFit'
  BY <1>28 DEF Idle, GoTo, GoOn, Finish, Bound, Report, localVars, Opened, Live, Ended
<1> HIDE <1>0, DriverConstants DEF Typed, SessionsTypeOK, KnownFit, Threads
<1> QED BY <1>1, <1>2, <1>3, <1>4, <1>5, <1>6, <1>7, <1>8, <1>9, <1>10, <1>11, <1>12, <1>13,
    <1>14, <1>15, <1>16, <1>17, <1>18, <1>19, <1>20, <1>21, <1>22, <1>23, <1>24, <1>25,
        <1>26, <1>27, <1>28 DEF Next, Call, Keep, EndStep, Threads

\* Both hold in every reachable state (the critical sections of session.rs over
\* records and tombstones).
THEOREM FitHolds == Spec => [](Typed /\ BuriedFit /\ KnownFit)
<1>1. Typed /\ BuriedFit /\ KnownFit /\ [Next]_vars => (Typed /\ BuriedFit /\ KnownFit)'
  <2>1. ASSUME Typed, BuriedFit, KnownFit, Next PROVE (Typed /\ BuriedFit /\ KnownFit)'
    BY <2>1, StepTyped, BuriedStep, KnownStep
  <2>2. ASSUME Typed, BuriedFit, KnownFit, UNCHANGED vars PROVE (Typed /\ BuriedFit /\ KnownFit)'
    <3>1. BuriedFit'
      BY <2>2 DEF BuriedFit, Live, Ended, vars, recordVars, tombVars
    <3>2. KnownFit'
      BY <2>2 DEF KnownFit, Opened, Live, Ended, vars, recordVars, tombVars, localVars
    <3> QED BY <2>2, <3>1, <3>2, StutterTyped
  <2> QED BY <2>1, <2>2
<1> QED BY InitTyped, InitFit, <1>1, PTL DEF Spec

\* No id is live and ended at once: a dispatch or a start that races an end
\* finds the record or the tombstone, never both and never neither.
THEOREM LiveXorEnded == Spec => []NeverLiveAndEnded
<1>1. BuriedFit => NeverLiveAndEnded
  BY DEF BuriedFit, NeverLiveAndEnded
<1> QED BY FitHolds, <1>1, PTL

\* One step of the registry is one step of the contract, or none.
LEMMA StepKeepsContract ==
  ASSUME Typed, BuriedFit, KnownFit, [Next]_vars
  PROVE  [Contract!Next]_(Contract!vars)
<1> DEFINE ph == [s \in Sessions |-> IF Live(s) THEN "live"
                                     ELSE IF Ended(s) THEN "ended" ELSE "unknown"]
           ho == [s \in Sessions |-> IF Live(s) THEN owner[s] ELSE buriedFor[s]]
<1>0. ASSUME owner' = owner, tombstones' = tombstones, buriedFor' = buriedFor
      PROVE  ph' = ph /\ ho' = ho
  BY <1>0 DEF Live, Ended
<1>1. ASSUME Quiet \/ UNCHANGED vars PROVE ph' = ph /\ ho' = ho
  BY <1>0, <1>1 DEF Quiet, vars, recordVars, tombVars
<1>2. ASSUME NEW t \in Clients, DropGuard(t) PROVE ph' = ph /\ ho' = ho
  BY <1>0, <1>2 DEF DropGuard, tombVars
<1>3. ASSUME NEW t \in Threads, Decide(t) PROVE ph' = ph /\ ho' = ho
  BY <1>0, <1>3 DEF Decide, tombVars
<1>4. ASSUME NEW t \in Clients, Begin(t) \/ Activate(t)
      PROVE  \/ ph' = ph /\ ho' = ho
             \/ \E s \in Sessions, o \in Owners : Contract!Open(s, o) \/ Contract!Revive(s, o)
  <2>0. PICK s \in Sessions, o \in Owners : s = sess[t] /\ o = via[t] /\ o # NoOwner
    BY <1>4, CallerKnown DEF Begin, Activate
  <2>1. s \in Sessions /\ o \in Owners /\ o # NoOwner
    BY <2>0
  <2>2. CASE owner' = owner /\ tombstones' = tombstones /\ buriedFor' = buriedFor
    BY <1>0, <2>2
  <2>3. CASE ~(owner' = owner /\ tombstones' = tombstones /\ buriedFor' = buriedFor)
    <3>1. /\ owner' = [owner EXCEPT ![s] = o]
          /\ owner[s] \in {o, NoOwner}
          /\ tombstones' = tombstones \ {s}
          /\ buriedFor' = [buriedFor EXCEPT ![s] = NoOwner]
          /\ Ended(s) => buriedFor[s] = o \/ (buriedFor[s] = NoOwner /\ o = s)
      BY <1>4, <2>3, <2>0 DEF Begin, Activate, OwnsTombstone, tombVars, Typed,
          SessionsTypeOK, BuriedFit, Ended, Live
    <3>2. \A x \in Sessions : /\ x # s => (Live(x)' <=> Live(x)) /\ (Ended(x)' <=> Ended(x))
                              /\ x # s => owner'[x] = owner[x] /\ buriedFor'[x] = buriedFor[x]
      BY <3>1, <2>1 DEF Live, Ended, Typed, SessionsTypeOK
    <3>3. Live(s)' /\ owner'[s] = o
      BY <3>1, <2>1 DEF Live, Typed, SessionsTypeOK
    <3>4. ph' = [ph EXCEPT ![s] = "live"]
      BY <3>2, <3>3, <2>1
    <3>5. ho' = [ho EXCEPT ![s] = o]
      BY <3>2, <3>3, <2>1
    <3>6. CASE Live(s)
      <4>1. ph[s] = "live" /\ ho[s] = o
        BY <3>6, <3>1, <2>1 DEF Live
      <4> QED BY <4>1, <3>4, <3>5, <2>1
    <3>7. CASE Ended(s)
      <4>1. ph[s] = "ended" /\ ho[s] = o
        BY <3>7, <3>1, <2>1 DEF BuriedFit, Live
      <4>2. ho' = ho
        BY <4>1, <3>5, <2>1
      <4>3. Contract!Revive(s, o)
        BY <4>1, <4>2, <3>4 DEF Contract!Revive
      <4> QED BY <4>3, <2>1
    <3>8. CASE ~Live(s) /\ ~Ended(s)
      <4>1. ph[s] = "unknown"
        BY <3>8, <2>1
      <4>2. Contract!Open(s, o)
        BY <4>1, <3>4, <3>5 DEF Contract!Open
      <4> QED BY <4>2, <2>1
    <3> QED BY <3>6, <3>7, <3>8
  <2> QED BY <2>2, <2>3
<1>5. ASSUME NEW t \in Threads, Mark(t)
      PROVE  \/ ph' = ph /\ ho' = ho
             \/ \E s \in Sessions : Contract!End(s)
  <2>0. PICK s \in Sessions : s = sess[t]
    BY DEF Typed, SessionsTypeOK
  <2>1. s \in Sessions /\ Opened(s)
    BY <1>5, <2>0 DEF Mark, KnownFit, Typed, SessionsTypeOK
  <2>2. /\ owner' = [owner EXCEPT ![s] = NoOwner]
        /\ tombstones' = tombstones \cup {s}
        /\ buriedFor' = [buriedFor EXCEPT ![s] = IF Ended(s) THEN @ ELSE owner[s]]
    BY <1>5, <2>0 DEF Mark
  <2>3. \A x \in Sessions : x # s => /\ (Live(x)' <=> Live(x)) /\ (Ended(x)' <=> Ended(x))
                                     /\ owner'[x] = owner[x] /\ buriedFor'[x] = buriedFor[x]
    BY <2>1, <2>2 DEF Live, Ended, Typed, SessionsTypeOK
  <2>4. ~Live(s)' /\ Ended(s)' /\ buriedFor'[s] = (IF Ended(s) THEN buriedFor[s] ELSE owner[s])
    BY <2>1, <2>2 DEF Live, Ended, Typed, SessionsTypeOK
  <2>5. CASE Ended(s)
    <3>1. ~Live(s)
      BY <2>1, <2>5 DEF BuriedFit
    <3>2. ph' = ph
      BY <2>3, <2>4, <2>5, <3>1, <2>1
    <3>3. ho' = ho
      BY <2>3, <2>4, <2>5, <3>1, <2>1
    <3> QED BY <3>2, <3>3
  <2>6. CASE ~Ended(s)
    <3>1. Live(s)
      BY <2>1, <2>6 DEF Opened
    <3>2. ph' = [ph EXCEPT ![s] = "ended"]
      BY <2>3, <2>4, <2>1
    <3>3. ho' = ho
      BY <2>3, <2>4, <2>6, <3>1, <2>1
    <3>4. Contract!End(s)
      BY <3>1, <3>2, <3>3, <2>1 DEF Contract!End
    <3> QED BY <3>4, <2>1
  <2> QED BY <2>5, <2>6
<1> QED
  BY <1>1, <1>2, <1>3, <1>4, <1>5, WhoWritesRecords DEF Contract!Next, Contract!vars

\* The session registry implements SessionContract: whatever the threads do,
\* an id is live for one transport, ended, or unknown, and never changes hands.
THEOREM RegistryKeepsContract == Spec => KeepsContract
<1>1. Init => Contract!Init
  BY DEF Init, Contract!Init, Live, Ended
<1>2. Typed /\ BuriedFit /\ KnownFit /\ [Next]_vars => [Contract!Next]_(Contract!vars)
  BY StepKeepsContract
<1> QED BY <1>1, <1>2, FitHolds, PTL DEF Spec, KeepsContract, Contract!Spec

-----------------------------------------------------------------------------
(* A cleanup that is marked as running is being run.                       *)

\* retry_session_cleanup enters and leaves the running mark with the thread.
LEMMA RunningStep ==
  ASSUME Typed, RunningIsRun, Next
  PROVE  RunningIsRun'
<1> USE DEF Typed, SessionsTypeOK, RunningIsRun, Threads
<1>1. ASSUME NEW t \in Clients, NEW o \in Owners, NEW s \in Sessions, Admit(t, o, s) PROVE RunningIsRun'
  BY <1>1 DEF Admit, GoTo, GoOn, Finish, Bound, Report, localVars, cleanupVars
<1>2. ASSUME NEW t \in Clients, NEW o \in Owners, NEW s \in Sessions, NEW p \in Policies \cup {"none"}, Start(t, o, s, p) PROVE RunningIsRun'
  BY <1>2 DEF Start, GoTo, GoOn, Finish, Bound, Report, localVars, cleanupVars
<1>3. ASSUME NEW t \in Clients, NEW o \in Owners, NEW s \in Sessions, EndTool(t, o, s) PROVE RunningIsRun'
  BY <1>3 DEF EndTool, GoTo, GoOn, Finish, Bound, Report, localVars, cleanupVars
<1>4. ASSUME NEW t \in Clients, Begin(t) PROVE RunningIsRun'
  BY <1>4 DEF Begin, GoTo, GoOn, Finish, Bound, Report, localVars, cleanupVars
<1>5. ASSUME NEW t \in Clients, Escalate(t) PROVE RunningIsRun'
  BY <1>5 DEF Escalate, GoTo, GoOn, Finish, Bound, Report, localVars, cleanupVars
<1>6. ASSUME NEW t \in Clients, Unlock(t) PROVE RunningIsRun'
  BY <1>6 DEF Unlock, GoTo, GoOn, Finish, Bound, Report, localVars, cleanupVars
<1>7. ASSUME NEW t \in Clients, DropGuard(t) PROVE RunningIsRun'
  BY <1>7 DEF DropGuard, GoTo, GoOn, Finish, Bound, Report, localVars, cleanupVars
<1>8. ASSUME NEW t \in Clients, Activate(t) PROVE RunningIsRun'
  BY <1>8 DEF Activate, GoTo, GoOn, Finish, Bound, Report, localVars, cleanupVars
<1>9. ASSUME NEW t \in Clients, Bind(t) PROVE RunningIsRun'
  BY <1>9 DEF Bind, GoTo, GoOn, Finish, Bound, Report, localVars, cleanupVars
<1>10. ASSUME NEW t \in Clients, BindInsert(t) PROVE RunningIsRun'
  BY <1>10 DEF BindInsert, GoTo, GoOn, Finish, Bound, Report, localVars, cleanupVars
<1>11. ASSUME NEW t \in Clients, Announce(t) PROVE RunningIsRun'
  BY <1>11 DEF Announce, GoTo, GoOn, Finish, Bound, Report, localVars, cleanupVars
<1>12. ASSUME NEW t \in Clients, MatchTombstone(t) PROVE RunningIsRun'
  BY <1>12 DEF MatchTombstone, GoTo, GoOn, Finish, Bound, Report, localVars, cleanupVars
<1>13. ASSUME NEW t \in Keepers, SweepRecords(t) PROVE RunningIsRun'
  BY <1>13 DEF SweepRecords, GoTo, GoOn, Finish, Bound, Report, localVars, cleanupVars
<1>14. ASSUME NEW t \in Keepers, RevokeAll(t) PROVE RunningIsRun'
  BY <1>14 DEF RevokeAll, GoTo, GoOn, Finish, Bound, Report, localVars, cleanupVars
<1>15. ASSUME NEW t \in Keepers, NEW o \in Owners, CloseTransport(t, o) PROVE RunningIsRun'
  BY <1>15 DEF CloseTransport, GoTo, GoOn, Finish, Bound, Report, localVars, cleanupVars
<1>16. ASSUME NEW t \in Keepers, SweepActivity(t) PROVE RunningIsRun'
  BY <1>16 DEF SweepActivity, GoTo, GoOn, Finish, Bound, Report, localVars, cleanupVars
<1>17. ASSUME NEW t \in Keepers, RevokeSnapshot(t) PROVE RunningIsRun'
  BY <1>17 DEF RevokeSnapshot, GoTo, GoOn, Finish, Bound, Report, localVars, cleanupVars
<1>18. ASSUME NEW t \in Keepers, NextInBatch(t) PROVE RunningIsRun'
  BY <1>18 DEF NextInBatch, GoTo, GoOn, Finish, Bound, Report, localVars, cleanupVars
<1>19. ASSUME NEW t \in Threads, Decide(t) PROVE RunningIsRun'
  BY <1>19 DEF Decide, GoTo, GoOn, Finish, Bound, Report, localVars, cleanupVars
<1>20. ASSUME NEW t \in Threads, ForgetActivity(t) PROVE RunningIsRun'
  BY <1>20 DEF ForgetActivity, GoTo, GoOn, Finish, Bound, Report, localVars, cleanupVars
<1>21. ASSUME NEW t \in Threads, Mark(t) PROVE RunningIsRun'
  BY <1>21 DEF Mark, GoTo, GoOn, Finish, Bound, Report, localVars, cleanupVars
<1>22. ASSUME NEW t \in Threads, ClearScope(t) PROVE RunningIsRun'
  BY <1>22 DEF ClearScope, GoTo, GoOn, Finish, Bound, Report, localVars, cleanupVars
<1>23. ASSUME NEW t \in Threads, InstallProgress(t) PROVE RunningIsRun'
  BY <1>23 DEF InstallProgress, GoTo, GoOn, Finish, Bound, Report, localVars, cleanupVars
<1>24. ASSUME NEW t \in Threads, RetryBegin(t) PROVE RunningIsRun'
  BY <1>24 DEF RetryBegin, GoTo, GoOn, Finish, Bound, Report, localVars, cleanupVars
<1>25. ASSUME NEW t \in Threads, RetryEnd(t) PROVE RunningIsRun'
  BY <1>25 DEF RetryEnd, GoTo, GoOn, Finish, Bound, Report, localVars, cleanupVars
<1>26. ASSUME NEW t \in Threads, Touch(t) PROVE RunningIsRun'
  BY <1>26 DEF Touch, GoTo, GoOn, Finish, Bound, Report, localVars, cleanupVars
<1>27. ASSUME NEW t \in Threads, NEW h \in Hooks, NEW b \in BOOLEAN, RunHook(t, h, b) PROVE RunningIsRun'
  BY <1>27 DEF RunHook, GoTo, GoOn, Finish, Bound, Report, localVars, cleanupVars
<1>28. ASSUME NEW s \in Sessions, Idle(s) PROVE RunningIsRun'
  BY <1>28 DEF Idle, GoTo, GoOn, Finish, Bound, Report, localVars, cleanupVars
<1> HIDE DEF Typed, SessionsTypeOK, RunningIsRun, Threads
<1> QED BY <1>1, <1>2, <1>3, <1>4, <1>5, <1>6, <1>7, <1>8, <1>9, <1>10, <1>11, <1>12, <1>13,
    <1>14, <1>15, <1>16, <1>17, <1>18, <1>19, <1>20, <1>21, <1>22, <1>23, <1>24, <1>25,
        <1>26, <1>27, <1>28 DEF Next, Call, Keep, EndStep, Threads

\* No cleanup is refused as "already in progress" on behalf of a thread that is
\* no longer running it.
THEOREM RunningHasARunner == Spec => []RunningIsRun
<1>1. Init => RunningIsRun
  BY DEF Init, RunningIsRun
<1>2. Typed /\ RunningIsRun /\ [Next]_vars => RunningIsRun'
  <2>1. ASSUME RunningIsRun, UNCHANGED vars PROVE RunningIsRun'
    BY <2>1 DEF RunningIsRun, vars, cleanupVars
  <2> QED BY <2>1, RunningStep
<1> QED BY <1>1, <1>2, TypedHolds, PTL DEF Spec

-----------------------------------------------------------------------------
(* The capture policy ends with its session.  The scope mutex belongs to   *)
(* the thread between the check and the write; a policy left in an ended   *)
(* session, or a write on its way to one, always has a clear_session ahead.*)

MutexFit ==
  \A t \in Threads : pc[t] \in {"insert", "escalate"} => scopeLock = {t}

ClearAhead ==
  \A s \in tombstones :
    \/ \E t \in Threads : pc[t] = "clear" /\ sess[t] = s
    \/ /\ scope[s] = "none"
       /\ \A t \in Threads : pc[t] \in {"insert", "escalate"} => sess[t] # s

\* No step lets a second thread past the scope mutex.
LEMMA MutexStep ==
  ASSUME Typed, MutexFit, Next
  PROVE  MutexFit'
<1> USE DEF Typed, SessionsTypeOK, MutexFit, Threads
<1>1. ASSUME NEW t \in Clients, NEW o \in Owners, NEW s \in Sessions, Admit(t, o, s) PROVE MutexFit'
  BY <1>1 DEF Admit, GoTo, GoOn, Finish, Bound, Report, localVars, scopeVars
<1>2. ASSUME NEW t \in Clients, NEW o \in Owners, NEW s \in Sessions, NEW p \in Policies \cup {"none"}, Start(t, o, s, p) PROVE MutexFit'
  BY <1>2 DEF Start, GoTo, GoOn, Finish, Bound, Report, localVars, scopeVars
<1>3. ASSUME NEW t \in Clients, NEW o \in Owners, NEW s \in Sessions, EndTool(t, o, s) PROVE MutexFit'
  BY <1>3 DEF EndTool, GoTo, GoOn, Finish, Bound, Report, localVars, scopeVars
<1>4. ASSUME NEW t \in Clients, Begin(t) PROVE MutexFit'
  BY <1>4 DEF Begin, GoTo, GoOn, Finish, Bound, Report, localVars, scopeVars
<1>5. ASSUME NEW t \in Clients, Escalate(t) PROVE MutexFit'
  BY <1>5 DEF Escalate, GoTo, GoOn, Finish, Bound, Report, localVars, scopeVars
<1>6. ASSUME NEW t \in Clients, Unlock(t) PROVE MutexFit'
  <2>1. \A u \in Threads : u # t => pc'[u] = pc[u] /\ pc[u] \notin {"insert", "escalate"}
    <3>1. pc[t] \in {"insert", "escalate"} /\ scopeLock = {t}
      BY <1>6 DEF Unlock
    <3>2. \A u \in Threads : pc[u] \in {"insert", "escalate"} => {u} = {t}
      BY <3>1
    <3>3. \A u \in Threads : {u} = {t} => u = t
      OBVIOUS
    <3> QED BY <1>6, <3>2, <3>3 DEF Unlock, GoTo, GoOn, Finish, Bound
  <2>2. pc'[t] \notin {"insert", "escalate"}
    BY <1>6 DEF Unlock, GoTo, GoOn, Finish, Bound
  <2> QED BY <2>1, <2>2
<1>7. ASSUME NEW t \in Clients, DropGuard(t) PROVE MutexFit'
  BY <1>7 DEF DropGuard, GoTo, GoOn, Finish, Bound, Report, localVars, scopeVars
<1>8. ASSUME NEW t \in Clients, Activate(t) PROVE MutexFit'
  BY <1>8 DEF Activate, GoTo, GoOn, Finish, Bound, Report, localVars, scopeVars
<1>9. ASSUME NEW t \in Clients, Bind(t) PROVE MutexFit'
  <2>1. CASE scopeLock' = {t}
    <3>1. scopeLock = {} \/ UNCHANGED scopeLock
      BY <1>9, <2>1 DEF Bind
    <3>2. \A u \in Threads : pc[u] \in {"insert", "escalate"} => u = t
      <4>1. \A u \in Threads : {u} = {t} => u = t
        OBVIOUS
      <4> QED BY <2>1, <3>1, <4>1
    <3>3. PICK label : pc' = [pc EXCEPT ![t] = label]
      BY <1>9 DEF Bind, GoTo, GoOn, Finish, Bound
    <3> QED BY <2>1, <3>2, <3>3
  <2>2. CASE scopeLock' # {t}
    <3>1. UNCHANGED scopeLock
      BY <1>9, <2>2 DEF Bind
    <3>2. PICK label : pc' = [pc EXCEPT ![t] = label] /\ label \notin {"insert", "escalate"}
      BY <1>9, <2>2 DEF Bind, GoTo, GoOn, Finish, Bound
    <3> QED BY <3>1, <3>2
  <2> QED BY <2>1, <2>2
<1>10. ASSUME NEW t \in Clients, BindInsert(t) PROVE MutexFit'
  <2>1. \A u \in Threads : u # t => pc'[u] = pc[u] /\ pc[u] \notin {"insert", "escalate"}
    <3>1. pc[t] \in {"insert", "escalate"} /\ scopeLock = {t}
      BY <1>10 DEF BindInsert
    <3>2. \A u \in Threads : pc[u] \in {"insert", "escalate"} => {u} = {t}
      BY <3>1
    <3>3. \A u \in Threads : {u} = {t} => u = t
      OBVIOUS
    <3>4. PICK label : pc' = [pc EXCEPT ![t] = label]
      BY <1>10 DEF BindInsert, GoTo, GoOn, Finish, Bound
    <3> QED BY <3>2, <3>3, <3>4
  <2>2. pc'[t] \notin {"insert", "escalate"}
    BY <1>10 DEF BindInsert, GoTo, GoOn, Finish, Bound
  <2> QED BY <2>1, <2>2
<1>11. ASSUME NEW t \in Clients, Announce(t) PROVE MutexFit'
  BY <1>11 DEF Announce, GoTo, GoOn, Finish, Bound, Report, localVars, scopeVars
<1>12. ASSUME NEW t \in Clients, MatchTombstone(t) PROVE MutexFit'
  BY <1>12 DEF MatchTombstone, GoTo, GoOn, Finish, Bound, Report, localVars, scopeVars
<1>13. ASSUME NEW t \in Keepers, SweepRecords(t) PROVE MutexFit'
  BY <1>13 DEF SweepRecords, GoTo, GoOn, Finish, Bound, Report, localVars, scopeVars
<1>14. ASSUME NEW t \in Keepers, RevokeAll(t) PROVE MutexFit'
  BY <1>14 DEF RevokeAll, GoTo, GoOn, Finish, Bound, Report, localVars, scopeVars
<1>15. ASSUME NEW t \in Keepers, NEW o \in Owners, CloseTransport(t, o) PROVE MutexFit'
  BY <1>15 DEF CloseTransport, GoTo, GoOn, Finish, Bound, Report, localVars, scopeVars
<1>16. ASSUME NEW t \in Keepers, SweepActivity(t) PROVE MutexFit'
  BY <1>16 DEF SweepActivity, GoTo, GoOn, Finish, Bound, Report, localVars, scopeVars
<1>17. ASSUME NEW t \in Keepers, RevokeSnapshot(t) PROVE MutexFit'
  BY <1>17 DEF RevokeSnapshot, GoTo, GoOn, Finish, Bound, Report, localVars, scopeVars
<1>18. ASSUME NEW t \in Keepers, NextInBatch(t) PROVE MutexFit'
  BY <1>18 DEF NextInBatch, GoTo, GoOn, Finish, Bound, Report, localVars, scopeVars
<1>19. ASSUME NEW t \in Threads, Decide(t) PROVE MutexFit'
  BY <1>19 DEF Decide, GoTo, GoOn, Finish, Bound, Report, localVars, scopeVars
<1>20. ASSUME NEW t \in Threads, ForgetActivity(t) PROVE MutexFit'
  BY <1>20 DEF ForgetActivity, GoTo, GoOn, Finish, Bound, Report, localVars, scopeVars
<1>21. ASSUME NEW t \in Threads, Mark(t) PROVE MutexFit'
  BY <1>21 DEF Mark, GoTo, GoOn, Finish, Bound, Report, localVars, scopeVars
<1>22. ASSUME NEW t \in Threads, ClearScope(t) PROVE MutexFit'
  BY <1>22 DEF ClearScope, GoTo, GoOn, Finish, Bound, Report, localVars, scopeVars
<1>23. ASSUME NEW t \in Threads, InstallProgress(t) PROVE MutexFit'
  BY <1>23 DEF InstallProgress, GoTo, GoOn, Finish, Bound, Report, localVars, scopeVars
<1>24. ASSUME NEW t \in Threads, RetryBegin(t) PROVE MutexFit'
  BY <1>24 DEF RetryBegin, GoTo, GoOn, Finish, Bound, Report, localVars, scopeVars
<1>25. ASSUME NEW t \in Threads, RetryEnd(t) PROVE MutexFit'
  BY <1>25 DEF RetryEnd, GoTo, GoOn, Finish, Bound, Report, localVars, scopeVars
<1>26. ASSUME NEW t \in Threads, Touch(t) PROVE MutexFit'
  BY <1>26 DEF Touch, GoTo, GoOn, Finish, Bound, Report, localVars, scopeVars
<1>27. ASSUME NEW t \in Threads, NEW h \in Hooks, NEW b \in BOOLEAN, RunHook(t, h, b) PROVE MutexFit'
  BY <1>27 DEF RunHook, GoTo, GoOn, Finish, Bound, Report, localVars, scopeVars
<1>28. ASSUME NEW s \in Sessions, Idle(s) PROVE MutexFit'
  BY <1>28 DEF Idle, GoTo, GoOn, Finish, Bound, Report, localVars, scopeVars
<1> HIDE DEF Typed, SessionsTypeOK, MutexFit, Threads
<1> QED BY <1>1, <1>2, <1>3, <1>4, <1>5, <1>6, <1>7, <1>8, <1>9, <1>10, <1>11, <1>12, <1>13,
    <1>14, <1>15, <1>16, <1>17, <1>18, <1>19, <1>20, <1>21, <1>22, <1>23, <1>24, <1>25,
        <1>26, <1>27, <1>28 DEF Next, Call, Keep, EndStep, Threads

\* Every action leaves a clear_session ahead of whatever can write a policy.
LEMMA ClearStep ==
  ASSUME Typed, MutexFit, ClearAhead, Next
  PROVE  ClearAhead'
<1> USE DEF Typed, SessionsTypeOK, MutexFit, ClearAhead, Threads, Ended
<1>1. ASSUME NEW t \in Clients, NEW o \in Owners, NEW s \in Sessions, Admit(t, o, s) PROVE ClearAhead'
  BY <1>1 DEF Admit, GoTo, GoOn, Finish, Bound, Report, localVars, scopeVars, tombVars
<1>2. ASSUME NEW t \in Clients, NEW o \in Owners, NEW s \in Sessions, NEW p \in Policies \cup {"none"}, Start(t, o, s, p) PROVE ClearAhead'
  BY <1>2 DEF Start, GoTo, GoOn, Finish, Bound, Report, localVars, scopeVars, tombVars
<1>3. ASSUME NEW t \in Clients, NEW o \in Owners, NEW s \in Sessions, EndTool(t, o, s) PROVE ClearAhead'
  BY <1>3 DEF EndTool, GoTo, GoOn, Finish, Bound, Report, localVars, scopeVars, tombVars
<1>4. ASSUME NEW t \in Clients, Begin(t) PROVE ClearAhead'
  BY <1>4 DEF Begin, GoTo, GoOn, Finish, Bound, Report, localVars, scopeVars, tombVars
<1>5. ASSUME NEW t \in Clients, Escalate(t) PROVE ClearAhead'
  BY <1>5 DEF Escalate, GoTo, GoOn, Finish, Bound, Report, localVars, scopeVars, tombVars
<1>6. ASSUME NEW t \in Clients, Unlock(t) PROVE ClearAhead'
  BY <1>6 DEF Unlock, GoTo, GoOn, Finish, Bound, Report, localVars, scopeVars, tombVars
<1>7. ASSUME NEW t \in Clients, DropGuard(t) PROVE ClearAhead'
  BY <1>7 DEF DropGuard, GoTo, GoOn, Finish, Bound, Report, localVars, scopeVars, tombVars
<1>8. ASSUME NEW t \in Clients, Activate(t) PROVE ClearAhead'
  BY <1>8 DEF Activate, GoTo, GoOn, Finish, Bound, Report, localVars, scopeVars, tombVars
<1>9. ASSUME NEW t \in Clients, Bind(t) PROVE ClearAhead'
  BY <1>9 DEF Bind, GoTo, GoOn, Finish, Bound, Report, localVars, scopeVars, tombVars
<1>10. ASSUME NEW t \in Clients, BindInsert(t) PROVE ClearAhead'
  BY <1>10 DEF BindInsert, GoTo, GoOn, Finish, Bound, Report, localVars, scopeVars, tombVars
<1>11. ASSUME NEW t \in Clients, Announce(t) PROVE ClearAhead'
  BY <1>11 DEF Announce, GoTo, GoOn, Finish, Bound, Report, localVars, scopeVars, tombVars
<1>12. ASSUME NEW t \in Clients, MatchTombstone(t) PROVE ClearAhead'
  BY <1>12 DEF MatchTombstone, GoTo, GoOn, Finish, Bound, Report, localVars, scopeVars, tombVars
<1>13. ASSUME NEW t \in Keepers, SweepRecords(t) PROVE ClearAhead'
  BY <1>13 DEF SweepRecords, GoTo, GoOn, Finish, Bound, Report, localVars, scopeVars, tombVars
<1>14. ASSUME NEW t \in Keepers, RevokeAll(t) PROVE ClearAhead'
  BY <1>14 DEF RevokeAll, GoTo, GoOn, Finish, Bound, Report, localVars, scopeVars, tombVars
<1>15. ASSUME NEW t \in Keepers, NEW o \in Owners, CloseTransport(t, o) PROVE ClearAhead'
  BY <1>15 DEF CloseTransport, GoTo, GoOn, Finish, Bound, Report, localVars, scopeVars, tombVars
<1>16. ASSUME NEW t \in Keepers, SweepActivity(t) PROVE ClearAhead'
  BY <1>16 DEF SweepActivity, GoTo, GoOn, Finish, Bound, Report, localVars, scopeVars, tombVars
<1>17. ASSUME NEW t \in Keepers, RevokeSnapshot(t) PROVE ClearAhead'
  BY <1>17 DEF RevokeSnapshot, GoTo, GoOn, Finish, Bound, Report, localVars, scopeVars, tombVars
<1>18. ASSUME NEW t \in Keepers, NextInBatch(t) PROVE ClearAhead'
  BY <1>18 DEF NextInBatch, GoTo, GoOn, Finish, Bound, Report, localVars, scopeVars, tombVars
<1>19. ASSUME NEW t \in Threads, Decide(t) PROVE ClearAhead'
  BY <1>19 DEF Decide, GoTo, GoOn, Finish, Bound, Report, localVars, scopeVars, tombVars
<1>20. ASSUME NEW t \in Threads, ForgetActivity(t) PROVE ClearAhead'
  BY <1>20 DEF ForgetActivity, GoTo, GoOn, Finish, Bound, Report, localVars, scopeVars, tombVars
<1>21. ASSUME NEW t \in Threads, Mark(t) PROVE ClearAhead'
  BY <1>21 DEF Mark, GoTo, GoOn, Finish, Bound, Report, localVars, scopeVars, tombVars
<1>22. ASSUME NEW t \in Threads, ClearScope(t) PROVE ClearAhead'
  BY <1>22 DEF ClearScope, GoTo, GoOn, Finish, Bound, Report, localVars, scopeVars, tombVars
<1>23. ASSUME NEW t \in Threads, InstallProgress(t) PROVE ClearAhead'
  BY <1>23 DEF InstallProgress, GoTo, GoOn, Finish, Bound, Report, localVars, scopeVars,
      tombVars
<1>24. ASSUME NEW t \in Threads, RetryBegin(t) PROVE ClearAhead'
  BY <1>24 DEF RetryBegin, GoTo, GoOn, Finish, Bound, Report, localVars, scopeVars, tombVars
<1>25. ASSUME NEW t \in Threads, RetryEnd(t) PROVE ClearAhead'
  BY <1>25 DEF RetryEnd, GoTo, GoOn, Finish, Bound, Report, localVars, scopeVars, tombVars
<1>26. ASSUME NEW t \in Threads, Touch(t) PROVE ClearAhead'
  BY <1>26 DEF Touch, GoTo, GoOn, Finish, Bound, Report, localVars, scopeVars, tombVars
<1>27. ASSUME NEW t \in Threads, NEW h \in Hooks, NEW b \in BOOLEAN, RunHook(t, h, b) PROVE ClearAhead'
  BY <1>27 DEF RunHook, GoTo, GoOn, Finish, Bound, Report, localVars, scopeVars, tombVars
<1>28. ASSUME NEW s \in Sessions, Idle(s) PROVE ClearAhead'
  BY <1>28 DEF Idle, GoTo, GoOn, Finish, Bound, Report, localVars, scopeVars, tombVars
<1> HIDE DEF Typed, SessionsTypeOK, MutexFit, ClearAhead, Threads, Ended
<1> QED BY <1>1, <1>2, <1>3, <1>4, <1>5, <1>6, <1>7, <1>8, <1>9, <1>10, <1>11, <1>12, <1>13,
    <1>14, <1>15, <1>16, <1>17, <1>18, <1>19, <1>20, <1>21, <1>22, <1>23, <1>24, <1>25,
        <1>26, <1>27, <1>28 DEF Next, Call, Keep, EndStep, Threads

\* A bind or an escalation that races the end of its session cannot leave a
\* policy behind, however many threads bind, escalate and end.
THEOREM PolicyIsCleared == Spec => []PolicyEndsWithSession
<1>1. Init => MutexFit /\ ClearAhead
  BY DEF Init, MutexFit, ClearAhead
<1>2. Typed /\ MutexFit /\ ClearAhead /\ [Next]_vars => MutexFit' /\ ClearAhead'
  <2>1. ASSUME MutexFit, ClearAhead, UNCHANGED vars PROVE MutexFit' /\ ClearAhead'
    BY <2>1 DEF MutexFit, ClearAhead, vars, tombVars, scopeVars
  <2> QED BY <2>1, MutexStep, ClearStep
<1>3. ClearAhead => PolicyEndsWithSession
  BY DEF ClearAhead, PolicyEndsWithSession
<1> QED BY <1>1, <1>2, <1>3, TypedHolds, PTL DEF Spec

-----------------------------------------------------------------------------
(* A deferred end has a guard to carry it out.  The count of a record never*)
(* exceeds the guards that are alive, and an end is only deferred while it *)
(* is above zero: a guard drops it to zero and then sees the pending end.  *)

Guards(s) == {t \in Clients : Guarded(t, s)}

CountFit ==
  \A s \in Sessions :
    /\ inFlight[s] <= Cardinality(Guards(s))
    /\ inFlight[s] > 0 => Live(s)
    /\ pendingEnd[s] # "none" => inFlight[s] > 0

\* Counting guards makes sense: they are among the finitely many clients.
LEMMA GuardsFinite ==
  \A s \in Sessions : IsFiniteSet(Guards(s)) /\ Cardinality(Guards(s)) \in Nat
  BY DriverConstants, FS_Subset, FS_CardinalityType DEF Guards

\* The same after a step.
LEMMA GuardsFinitePrimed ==
  \A s \in Sessions : IsFiniteSet(Guards(s)') /\ Cardinality(Guards(s)') \in Nat
<1>1. \A s \in Sessions : Guards(s)' \subseteq Clients
  BY DEF Guards
<1> QED
  BY <1>1, DriverConstants, FS_Subset, FS_CardinalityType

\* Only Begin makes a guard and only DropGuard releases one.
LEMMA WhoGuards ==
  ASSUME Typed, Next
  PROVE  \/ \A s \in Sessions : Guards(s)' = Guards(s)
         \/ \E t \in Clients : Begin(t) \/ DropGuard(t)
<1> DEFINE Same == \A c \in Clients, x \in Sessions : Guarded(c, x)' <=> Guarded(c, x)
<1>0. Same => \A s \in Sessions : Guards(s)' = Guards(s)
  BY DEF Guards
<1> USE DriverConstants DEF Typed, SessionsTypeOK, AimsFit, Ending, Reasons, Threads, Guarded
<1>1. ASSUME NEW t \in Clients, NEW o \in Owners, NEW s \in Sessions, Admit(t, o, s) PROVE Same
  BY <1>1 DEF Admit, GoTo, GoOn, Finish, Bound, Report, localVars, purpose
<1>2. ASSUME NEW t \in Clients, NEW o \in Owners, NEW s \in Sessions, NEW p \in Policies \cup {"none"}, Start(t, o, s, p) PROVE Same
  BY <1>2 DEF Start, GoTo, GoOn, Finish, Bound, Report, localVars, purpose
<1>3. ASSUME NEW t \in Clients, NEW o \in Owners, NEW s \in Sessions, EndTool(t, o, s) PROVE Same
  BY <1>3 DEF EndTool, GoTo, GoOn, Finish, Bound, Report, localVars, purpose
<1>4. ASSUME NEW t \in Clients, Escalate(t) PROVE Same
  BY <1>4 DEF Escalate, GoTo, GoOn, Finish, Bound, Report, localVars, purpose
<1>5. ASSUME NEW t \in Clients, Unlock(t) PROVE Same
  BY <1>5 DEF Unlock, GoTo, GoOn, Finish, Bound, Report, localVars, purpose
<1>6. ASSUME NEW t \in Clients, Activate(t) PROVE Same
  BY <1>6 DEF Activate, GoTo, GoOn, Finish, Bound, Report, localVars, purpose
<1>7. ASSUME NEW t \in Clients, Bind(t) PROVE Same
  BY <1>7 DEF Bind, GoTo, GoOn, Finish, Bound, Report, localVars, purpose
<1>8. ASSUME NEW t \in Clients, BindInsert(t) PROVE Same
  BY <1>8 DEF BindInsert, GoTo, GoOn, Finish, Bound, Report, localVars, purpose
<1>9. ASSUME NEW t \in Clients, Announce(t) PROVE Same
  BY <1>9 DEF Announce, GoTo, GoOn, Finish, Bound, Report, localVars, purpose
<1>10. ASSUME NEW t \in Clients, MatchTombstone(t) PROVE Same
  BY <1>10 DEF MatchTombstone, GoTo, GoOn, Finish, Bound, Report, localVars, purpose
<1>11. ASSUME NEW t \in Keepers, SweepRecords(t) PROVE Same
  BY <1>11 DEF SweepRecords, GoTo, GoOn, Finish, Bound, Report, localVars, purpose
<1>12. ASSUME NEW t \in Keepers, RevokeAll(t) PROVE Same
  BY <1>12 DEF RevokeAll, GoTo, GoOn, Finish, Bound, Report, localVars, purpose
<1>13. ASSUME NEW t \in Keepers, NEW o \in Owners, CloseTransport(t, o) PROVE Same
  BY <1>13 DEF CloseTransport, GoTo, GoOn, Finish, Bound, Report, localVars, purpose
<1>14. ASSUME NEW t \in Keepers, SweepActivity(t) PROVE Same
  BY <1>14 DEF SweepActivity, GoTo, GoOn, Finish, Bound, Report, localVars, purpose
<1>15. ASSUME NEW t \in Keepers, RevokeSnapshot(t) PROVE Same
  BY <1>15 DEF RevokeSnapshot, GoTo, GoOn, Finish, Bound, Report, localVars, purpose
<1>16. ASSUME NEW t \in Keepers, NextInBatch(t) PROVE Same
  BY <1>16 DEF NextInBatch, GoTo, GoOn, Finish, Bound, Report, localVars, purpose
<1>17. ASSUME NEW t \in Threads, Decide(t) PROVE Same
  BY <1>17 DEF Decide, GoTo, GoOn, Finish, Bound, Report, localVars, purpose
<1>18. ASSUME NEW t \in Threads, ForgetActivity(t) PROVE Same
  BY <1>18 DEF ForgetActivity, GoTo, GoOn, Finish, Bound, Report, localVars, purpose
<1>19. ASSUME NEW t \in Threads, Mark(t) PROVE Same
  BY <1>19 DEF Mark, GoTo, GoOn, Finish, Bound, Report, localVars, purpose
<1>20. ASSUME NEW t \in Threads, ClearScope(t) PROVE Same
  BY <1>20 DEF ClearScope, GoTo, GoOn, Finish, Bound, Report, localVars, purpose
<1>21. ASSUME NEW t \in Threads, InstallProgress(t) PROVE Same
  BY <1>21 DEF InstallProgress, GoTo, GoOn, Finish, Bound, Report, localVars, purpose
<1>22. ASSUME NEW t \in Threads, RetryBegin(t) PROVE Same
  BY <1>22 DEF RetryBegin, GoTo, GoOn, Finish, Bound, Report, localVars, purpose
<1>23. ASSUME NEW t \in Threads, RetryEnd(t) PROVE Same
  BY <1>23 DEF RetryEnd, GoTo, GoOn, Finish, Bound, Report, localVars, purpose
<1>24. ASSUME NEW t \in Threads, Touch(t) PROVE Same
  BY <1>24 DEF Touch, GoTo, GoOn, Finish, Bound, Report, localVars, purpose
<1>25. ASSUME NEW t \in Threads, NEW h \in Hooks, NEW b \in BOOLEAN, RunHook(t, h, b) PROVE Same
  BY <1>25 DEF RunHook, GoTo, GoOn, Finish, Bound, Report, localVars, purpose
<1>26. ASSUME NEW s \in Sessions, Idle(s) PROVE Same
  BY <1>26 DEF Idle, GoTo, GoOn, Finish, Bound, Report, localVars, purpose
<1> HIDE DriverConstants DEF Typed, SessionsTypeOK, AimsFit, Ending, Reasons, Threads, Guarded
<1> HIDE DEF Same
<1> QED BY <1>0, <1>1, <1>2, <1>3, <1>4, <1>5, <1>6, <1>7, <1>8, <1>9, <1>10, <1>11, <1>12,
    <1>13, <1>14, <1>15, <1>16, <1>17, <1>18, <1>19, <1>20, <1>21, <1>22, <1>23, <1>24,
        <1>25, <1>26 DEF Next, Call, Keep, EndStep, Threads

\* The count fits after every step that makes or releases no guard.
LEMMA CountQuiet ==
  ASSUME Typed, CountFit, Next, \A s \in Sessions : Guards(s)' = Guards(s),
         ~\E t \in Clients : Begin(t) \/ DropGuard(t)
  PROVE  CountFit'
<1> USE DEF Typed, SessionsTypeOK, CountFit, Live
<1>0. \A s \in Sessions : Cardinality(Guards(s)') = Cardinality(Guards(s)) /\ Cardinality(Guards(s)) \in Nat
  BY GuardsFinite
<1>1. CASE Quiet
  BY <1>0, <1>1 DEF Quiet
<1>2. ASSUME NEW t \in Clients, Activate(t) PROVE CountFit'
  <2>1. /\ sess[t] \in Sessions /\ via[t] \in Owners /\ via[t] # NoOwner
        /\ UNCHANGED <<inFlight, pendingEnd>>
        /\ owner' = owner \/ owner' = [owner EXCEPT ![sess[t]] = via[t]]
    BY <1>2, CallerKnown DEF Activate
  <2> QED BY <1>0, <2>1
<1>3. ASSUME NEW t \in Threads, Mark(t) PROVE CountFit'
  BY <1>0, <1>3 DEF Mark
<1>4. ASSUME NEW t \in Threads, Decide(t) PROVE CountFit'
  BY <1>0, <1>4 DEF Decide
<1> HIDE DEF Typed, SessionsTypeOK, CountFit, Live
<1> QED BY <1>1, <1>2, <1>3, <1>4, WhoWritesRecords

\* begin_session_dispatch counts the guard it makes.
LEMMA CountBegin ==
  ASSUME Typed, CountFit, NEW t \in Clients, Begin(t)
  PROVE  CountFit'
<1>1. PICK s \in Sessions, o \in Owners : s = sess[t] /\ o = via[t] /\ o # NoOwner
  BY CallerKnown DEF Begin
<1>2. t \notin Guards(s) /\ UNCHANGED <<pendingEnd, sess>> /\ pc[t] = "admitted" /\ aim[t] = "dispatch"
      /\ batch[t] = {} /\ t \in Threads
  BY <1>1 DEF Begin, Guards, Guarded, Typed, AimsFit, Ending, Threads
<1>3. CASE UNCHANGED <<owner, inFlight>>
  <2>1. \A c \in Clients, x \in Sessions : Guarded(c, x) => Guarded(c, x)'
    BY <1>2, <1>3 DEF Begin, Guarded, GoOn, GoTo, Finish, purpose, Typed, SessionsTypeOK,
        Threads
  <2>2. \A x \in Sessions : Guards(x) \subseteq Guards(x)'
    BY <2>1 DEF Guards
  <2>3. \A x \in Sessions : Cardinality(Guards(x)) <= Cardinality(Guards(x)')
    BY <2>2, GuardsFinitePrimed, FS_Subset
  <2> QED BY <1>2, <1>3, <2>3, GuardsFinite, GuardsFinitePrimed DEF CountFit, Live, Typed,
      SessionsTypeOK
<1>4. CASE ~UNCHANGED <<owner, inFlight>>
  <2>1. /\ owner' = [owner EXCEPT ![s] = o]
        /\ inFlight' = [inFlight EXCEPT ![s] = @ + 1]
        /\ pc' = [pc EXCEPT ![t] = "touch"] /\ UNCHANGED <<aim, asks>>
        /\ pendingEnd[s] = "none"
    BY <1>1, <1>2, <1>4 DEF Begin, GoOn, GoTo, purpose
  <2>2. \A c \in Clients, x \in Sessions : Guarded(c, x)' <=> Guarded(c, x) \/ (c = t /\ x = s)
    BY <1>1, <1>2, <2>1 DEF Guarded, Typed, SessionsTypeOK, Threads
  <2>3. Guards(s)' = Guards(s) \cup {t}
    BY <2>2, <1>1 DEF Guards
  <2>4. \A x \in Sessions : x # s => Guards(x)' = Guards(x)
    BY <2>2 DEF Guards
  <2>5. Cardinality(Guards(s)') = Cardinality(Guards(s)) + 1
    BY <2>3, <1>2, GuardsFinite, FS_AddElement
  <2>6. ASSUME NEW x \in Sessions, x # s PROVE Cardinality(Guards(x)') = Cardinality(Guards(x))
    BY <2>4, <2>6
  <2> QED BY <1>1, <1>2, <2>1, <2>5, <2>6, GuardsFinite DEF CountFit, Live, Typed,
      SessionsTypeOK
<1> QED BY <1>3, <1>4

\* A guard's drop gives its count back, and takes the pending end with the last.
LEMMA CountDrop ==
  ASSUME Typed, CountFit, NEW t \in Clients, DropGuard(t)
  PROVE  CountFit'
<1>1. PICK s \in Sessions : s = sess[t]
  BY DEF Typed, SessionsTypeOK, Threads
<1>2. t \in Guards(s) /\ UNCHANGED <<owner, sess>> /\ pc[t] \in {"working", "returning"}
      /\ batch[t] = {} /\ t \in Threads
  BY <1>1 DEF DropGuard, Guards, Guarded, Typed, AimsFit, Threads
<1>3. \A c \in Clients, x \in Sessions : Guarded(c, x)' <=> Guarded(c, x) /\ ~(c = t /\ x = s)
  <2>1. pc' = [pc EXCEPT ![t] = "idle"] \/ pc' = [pc EXCEPT ![t] = "forget"]
    BY <1>2 DEF DropGuard, Finish, GoTo
  <2>2. \A c \in Clients : c # t => aim'[c] = aim[c] /\ pc'[c] = pc[c]
    BY <1>2 DEF DropGuard, Finish, GoTo, Typed, SessionsTypeOK, Threads
  <2>3. pc'[t] \in {"idle", "forget"}
    BY <2>1, <1>2 DEF Typed, SessionsTypeOK
  <2> QED BY <1>1, <1>2, <2>2, <2>3 DEF Guarded, Typed, SessionsTypeOK, Threads
<1>4. Guards(s)' = Guards(s) \ {t}
  BY <1>3, <1>1 DEF Guards
<1>5. \A x \in Sessions : x # s => Guards(x)' = Guards(x)
  BY <1>3 DEF Guards
<1>6. Cardinality(Guards(s)') = Cardinality(Guards(s)) - 1 /\ Cardinality(Guards(s)) \in Nat
  BY <1>4, <1>2, GuardsFinite, FS_RemoveElement
<1>7. ASSUME NEW x \in Sessions, x # s PROVE Cardinality(Guards(x)') = Cardinality(Guards(x))
  BY <1>5, <1>7
<1>8. Cardinality(Guards(s)') \in Nat
  BY GuardsFinitePrimed
<1> USE DEF CountFit, Live, Typed, SessionsTypeOK
<1>9. CASE ~Live(s)
  <2>1. UNCHANGED <<inFlight, pendingEnd>>
    BY <1>1, <1>9 DEF DropGuard
  <2>2. inFlight[s] = 0
    BY <1>9
  <2> QED BY <1>2, <2>1, <2>2, <1>6, <1>7, <1>8
<1>10. CASE Live(s)
  <2>1. PICK left \in Nat :
          /\ left = IF inFlight[s] = 0 THEN 0 ELSE inFlight[s] - 1
          /\ inFlight' = [inFlight EXCEPT ![s] = left]
          /\ left = 0 /\ pendingEnd[s] # "none" => pendingEnd' = [pendingEnd EXCEPT ![s] = "none"]
          /\ ~(left = 0 /\ pendingEnd[s] # "none") => pendingEnd' = pendingEnd
    BY <1>1, <1>10 DEF DropGuard
  <2>2. left <= Cardinality(Guards(s)')
    BY <2>1, <1>6, <1>8
  <2>3. left > 0 \/ pendingEnd'[s] = "none"
    BY <2>1
  <2>4. \A x \in Sessions : x # s => inFlight'[x] = inFlight[x] /\ pendingEnd'[x] = pendingEnd[x]
    BY <2>1
  <2>5. inFlight'[s] = left /\ Live(s)'
    BY <2>1, <1>2, <1>10
  <2>6. \A x \in Sessions : x # s => owner'[x] = owner[x]
    BY <1>2
  <2> QED BY <1>7, <2>2, <2>3, <2>4, <2>5, <2>6
<1> QED BY <1>9, <1>10

\* The count of a record never exceeds its guards (session.rs:373-394, 447-505).
THEOREM CountFitHolds == Spec => []CountFit
<1>1. Init => CountFit
  <2>1. ASSUME Init, NEW s \in Sessions
        PROVE  /\ inFlight[s] <= Cardinality(Guards(s)) /\ ~(inFlight[s] > 0)
               /\ pendingEnd[s] = "none"
    <3>1. inFlight[s] = 0 /\ pendingEnd[s] = "none"
      BY <2>1 DEF Init
    <3> QED BY <3>1, GuardsFinite
  <2> QED BY <2>1 DEF CountFit
<1>2. Typed /\ CountFit /\ [Next]_vars => CountFit'
  <2>1. ASSUME CountFit, UNCHANGED vars PROVE CountFit'
    <3>1. \A s \in Sessions : Guards(s)' = Guards(s)
      BY <2>1 DEF Guards, Guarded, vars, purpose
    <3> QED BY <2>1, <3>1 DEF CountFit, Live, vars, recordVars
  <2>2. ASSUME Typed, CountFit, Next PROVE CountFit'
    BY <2>2, WhoGuards, CountQuiet, CountBegin, CountDrop
  <2> QED BY <2>1, <2>2
<1> QED BY <1>1, <1>2, TypedHolds, PTL DEF Spec

\* An end that was deferred to the calls in flight is never left without one:
\* the guard whose drop will carry it out is alive, for any number of threads.
THEOREM DeferredEndIsGuarded == Spec => []DeferredEndHasAGuard
<1>1. Typed /\ CountFit => DeferredEndHasAGuard
  <2> SUFFICES ASSUME Typed, CountFit, NEW s \in Sessions, pendingEnd[s] # "none"
      PROVE  Live(s) /\ \E t \in Clients : Guarded(t, s)
    BY DEF DeferredEndHasAGuard
  <2>1. Cardinality(Guards(s)) # 0 /\ Live(s)
    BY GuardsFinite DEF CountFit, Typed, SessionsTypeOK
  <2>2. Guards(s) # {}
    BY <2>1, FS_EmptySet
  <2> QED BY <2>1, <2>2 DEF Guards
<1> QED BY <1>1, TypedHolds, CountFitHolds, PTL

-----------------------------------------------------------------------------
(* The cleanup of an id that was never started again.                      *)

\* Thread t is between the first end of s and the table of its cleanup.
Opening(t, s) == pc[t] \in {"clear", "install"} /\ sess[t] = s
Cleaning(t, s) == pc[t] = "hooks" /\ sess[t] = s

\* A start that revives is about an id that was started again.
ReviveFit ==
  \A t \in Threads :
    pc[t] \in {"touch", "bind", "insert", "announce"} /\ aim[t] = "revive" =>
      sess[t] \in recycled

\* Before it is ended an id has no cleanup at all; one thread opens it.
OpeningFit ==
  \A s \in Sessions \ recycled :
    /\ ~Ended(s) => torn[s] = {} /\ s \notin progress
    /\ \A t \in Threads :
         /\ pc[t] \in {"clear", "install", "hooks"} /\ sess[t] = s => Ended(s)
         /\ Opening(t, s) => torn[s] = {} /\ s \notin progress
         /\ \A u \in Threads : Opening(t, s) /\ Opening(u, s) => t = u

\* One thread cleans at a time, and the hooks torn down are the ones counted
\* as completed and the ones it has won so far.
CleaningFit ==
  \A s \in Sessions \ recycled :
    \A t \in Threads : Cleaning(t, s) =>
      /\ s \in progress /\ s \in running
      /\ torn[s] = completed[s] \cup won[t]
      /\ work[t] \cap torn[s] = {}
      /\ \A u \in Threads : Cleaning(u, s) => t = u

\* What is left to clean is in the table until everything is torn down.
TableFit ==
  \A s \in Sessions \ recycled :
    /\ s \in progress /\ (\A t \in Threads : ~Cleaning(t, s)) => torn[s] = completed[s]
    /\ s \notin progress /\ Ended(s) =>
         torn[s] = Hooks \/ \E t \in Threads : Opening(t, s)

CleanupFit == ReviveFit /\ OpeningFit /\ CleaningFit /\ TableFit

\* Only a start that cleared a tombstone goes on as a revival.
LEMMA ReviveStep ==
  ASSUME Typed, RunningIsRun, CleanupFit, Next
  PROVE  ReviveFit'
<1> USE DEF Typed, SessionsTypeOK, CleanupFit, ReviveFit, OpeningFit, CleaningFit, TableFit,
    Threads, Opening, Cleaning, Ended
<1>1. ASSUME NEW t \in Clients, NEW o \in Owners, NEW s \in Sessions, Admit(t, o, s) PROVE ReviveFit'
  BY <1>1 DEF Admit, GoTo, GoOn, Finish, Bound, Report, recordVars, tombVars, cleanupVars,
      purpose, localVars
<1>2. ASSUME NEW t \in Clients, NEW o \in Owners, NEW s \in Sessions, NEW p \in Policies \cup {"none"}, Start(t, o, s, p) PROVE ReviveFit'
  BY <1>2 DEF Start, GoTo, GoOn, Finish, Bound, Report, recordVars, tombVars, cleanupVars,
      purpose, localVars
<1>3. ASSUME NEW t \in Clients, NEW o \in Owners, NEW s \in Sessions, EndTool(t, o, s) PROVE ReviveFit'
  BY <1>3 DEF EndTool, GoTo, GoOn, Finish, Bound, Report, recordVars, tombVars, cleanupVars,
      purpose, localVars
<1>4. ASSUME NEW t \in Clients, Begin(t) PROVE ReviveFit'
  BY <1>4 DEF Begin, AimsFit, GoTo, GoOn, Finish, purpose
<1>5. ASSUME NEW t \in Clients, Escalate(t) PROVE ReviveFit'
  BY <1>5 DEF Escalate, GoTo, GoOn, Finish, Bound, Report, recordVars, tombVars, cleanupVars,
      purpose, localVars
<1>6. ASSUME NEW t \in Clients, Unlock(t) PROVE ReviveFit'
  BY <1>6 DEF Unlock, GoTo, GoOn, Finish, Bound, Report, recordVars, tombVars, cleanupVars,
      purpose, localVars
<1>7. ASSUME NEW t \in Clients, DropGuard(t) PROVE ReviveFit'
  BY <1>7 DEF DropGuard, GoTo, GoOn, Finish, Bound, Report, recordVars, tombVars,
      cleanupVars, purpose, localVars
<1>8. ASSUME NEW t \in Clients, Activate(t) PROVE ReviveFit'
  BY <1>8 DEF Activate, GoTo, GoOn, Finish, Bound, Report, recordVars, tombVars, cleanupVars,
      purpose, localVars
<1>9. ASSUME NEW t \in Clients, Bind(t) PROVE ReviveFit'
  BY <1>9 DEF Bind, GoTo, GoOn, Finish, Bound, Report, recordVars, tombVars, cleanupVars,
      purpose, localVars
<1>10. ASSUME NEW t \in Clients, BindInsert(t) PROVE ReviveFit'
  BY <1>10 DEF BindInsert, GoTo, GoOn, Finish, Bound, Report, recordVars, tombVars,
      cleanupVars, purpose, localVars
<1>11. ASSUME NEW t \in Clients, Announce(t) PROVE ReviveFit'
  BY <1>11 DEF Announce, GoTo, GoOn, Finish, Bound, Report, recordVars, tombVars,
      cleanupVars, purpose, localVars
<1>12. ASSUME NEW t \in Clients, MatchTombstone(t) PROVE ReviveFit'
  BY <1>12 DEF MatchTombstone, GoTo, GoOn, Finish, Bound, Report, recordVars, tombVars,
      cleanupVars, purpose, localVars
<1>13. ASSUME NEW t \in Keepers, SweepRecords(t) PROVE ReviveFit'
  BY <1>13 DEF SweepRecords, GoTo, GoOn, Finish, Bound, Report, recordVars, tombVars,
      cleanupVars, purpose, localVars
<1>14. ASSUME NEW t \in Keepers, RevokeAll(t) PROVE ReviveFit'
  BY <1>14 DEF RevokeAll, GoTo, GoOn, Finish, Bound, Report, recordVars, tombVars,
      cleanupVars, purpose, localVars
<1>15. ASSUME NEW t \in Keepers, NEW o \in Owners, CloseTransport(t, o) PROVE ReviveFit'
  BY <1>15 DEF CloseTransport, GoTo, GoOn, Finish, Bound, Report, recordVars, tombVars,
      cleanupVars, purpose, localVars
<1>16. ASSUME NEW t \in Keepers, SweepActivity(t) PROVE ReviveFit'
  BY <1>16 DEF SweepActivity, GoTo, GoOn, Finish, Bound, Report, recordVars, tombVars,
      cleanupVars, purpose, localVars
<1>17. ASSUME NEW t \in Keepers, RevokeSnapshot(t) PROVE ReviveFit'
  BY <1>17 DEF RevokeSnapshot, GoTo, GoOn, Finish, Bound, Report, recordVars, tombVars,
      cleanupVars, purpose, localVars
<1>18. ASSUME NEW t \in Keepers, NextInBatch(t) PROVE ReviveFit'
  BY <1>18 DEF NextInBatch, GoTo, GoOn, Finish, Bound, Report, recordVars, tombVars,
      cleanupVars, purpose, localVars
<1>19. ASSUME NEW t \in Threads, Decide(t) PROVE ReviveFit'
  BY <1>19 DEF Decide, GoTo, GoOn, Finish, Bound, Report, recordVars, tombVars, cleanupVars,
      purpose, localVars
<1>20. ASSUME NEW t \in Threads, ForgetActivity(t) PROVE ReviveFit'
  BY <1>20 DEF ForgetActivity, GoTo, GoOn, Finish, Bound, Report, recordVars, tombVars,
      cleanupVars, purpose, localVars
<1>21. ASSUME NEW t \in Threads, Mark(t) PROVE ReviveFit'
  BY <1>21 DEF Mark, GoTo, GoOn, Finish, Bound, Report, recordVars, tombVars, cleanupVars,
      purpose, localVars
<1>22. ASSUME NEW t \in Threads, ClearScope(t) PROVE ReviveFit'
  BY <1>22 DEF ClearScope, GoTo, GoOn, Finish, Bound, Report, recordVars, tombVars,
      cleanupVars, purpose, localVars
<1>23. ASSUME NEW t \in Threads, InstallProgress(t) PROVE ReviveFit'
  BY <1>23 DEF InstallProgress, GoTo, GoOn, Finish, Bound, Report, recordVars, tombVars,
      cleanupVars, purpose, localVars
<1>24. ASSUME NEW t \in Threads, RetryBegin(t) PROVE ReviveFit'
  BY <1>24 DEF RetryBegin, GoTo, GoOn, Finish, Bound, Report, recordVars, tombVars,
      cleanupVars, purpose, localVars
<1>25. ASSUME NEW t \in Threads, RetryEnd(t) PROVE ReviveFit'
  BY <1>25 DEF RetryEnd, GoTo, GoOn, Finish, Bound, Report, recordVars, tombVars,
      cleanupVars, purpose, localVars
<1>26. ASSUME NEW t \in Threads, Touch(t) PROVE ReviveFit'
  BY <1>26 DEF Touch, GoTo, GoOn, Finish, Bound, Report, recordVars, tombVars, cleanupVars,
      purpose, localVars
<1>27. ASSUME NEW t \in Threads, NEW h \in Hooks, NEW b \in BOOLEAN, RunHook(t, h, b) PROVE ReviveFit'
  BY <1>27 DEF RunHook, GoTo, GoOn, Finish, Bound, Report, recordVars, tombVars, cleanupVars,
      purpose, localVars
<1>28. ASSUME NEW s \in Sessions, Idle(s) PROVE ReviveFit'
  BY <1>28 DEF Idle, GoTo, GoOn, Finish, Bound, Report, recordVars, tombVars, cleanupVars,
      purpose, localVars
<1> HIDE DEF Typed, SessionsTypeOK, CleanupFit, ReviveFit, OpeningFit, CleaningFit, TableFit,
    Threads, Opening, Cleaning, Ended
<1> QED BY <1>1, <1>2, <1>3, <1>4, <1>5, <1>6, <1>7, <1>8, <1>9, <1>10, <1>11, <1>12, <1>13,
    <1>14, <1>15, <1>16, <1>17, <1>18, <1>19, <1>20, <1>21, <1>22, <1>23, <1>24, <1>25,
        <1>26, <1>27, <1>28 DEF Next, Call, Keep, EndStep, Threads

\* Every action keeps the opening of a cleanup to one thread.
LEMMA OpeningStep ==
  ASSUME Typed, RunningIsRun, CleanupFit, Next
  PROVE  OpeningFit'
<1> USE DEF Typed, SessionsTypeOK, CleanupFit, ReviveFit, OpeningFit, CleaningFit, TableFit,
    Threads, Opening, Cleaning, Ended
<1>1. ASSUME NEW t \in Clients, NEW o \in Owners, NEW s \in Sessions, Admit(t, o, s) PROVE OpeningFit'
  BY <1>1 DEF Admit, GoTo, GoOn, Finish, Bound, Report, recordVars, tombVars, cleanupVars,
      purpose, localVars
<1>2. ASSUME NEW t \in Clients, NEW o \in Owners, NEW s \in Sessions, NEW p \in Policies \cup {"none"}, Start(t, o, s, p) PROVE OpeningFit'
  BY <1>2 DEF Start, GoTo, GoOn, Finish, Bound, Report, recordVars, tombVars, cleanupVars,
      purpose, localVars
<1>3. ASSUME NEW t \in Clients, NEW o \in Owners, NEW s \in Sessions, EndTool(t, o, s) PROVE OpeningFit'
  BY <1>3 DEF EndTool, GoTo, GoOn, Finish, Bound, Report, recordVars, tombVars, cleanupVars,
      purpose, localVars
<1>4. ASSUME NEW t \in Clients, Begin(t) PROVE OpeningFit'
  BY <1>4 DEF Begin, GoTo, GoOn, Finish, Bound, Report, recordVars, tombVars, cleanupVars,
      purpose, localVars
<1>5. ASSUME NEW t \in Clients, Escalate(t) PROVE OpeningFit'
  BY <1>5 DEF Escalate, GoTo, GoOn, Finish, Bound, Report, recordVars, tombVars, cleanupVars,
      purpose, localVars
<1>6. ASSUME NEW t \in Clients, Unlock(t) PROVE OpeningFit'
  BY <1>6 DEF Unlock, GoTo, GoOn, Finish, Bound, Report, recordVars, tombVars, cleanupVars,
      purpose, localVars
<1>7. ASSUME NEW t \in Clients, DropGuard(t) PROVE OpeningFit'
  BY <1>7 DEF DropGuard, GoTo, GoOn, Finish, Bound, Report, recordVars, tombVars,
      cleanupVars, purpose, localVars
<1>8. ASSUME NEW t \in Clients, Activate(t) PROVE OpeningFit'
  BY <1>8 DEF Activate, GoTo, GoOn, Finish, Bound, Report, recordVars, tombVars, cleanupVars,
      purpose, localVars
<1>9. ASSUME NEW t \in Clients, Bind(t) PROVE OpeningFit'
  BY <1>9 DEF Bind, GoTo, GoOn, Finish, Bound, Report, recordVars, tombVars, cleanupVars,
      purpose, localVars
<1>10. ASSUME NEW t \in Clients, BindInsert(t) PROVE OpeningFit'
  BY <1>10 DEF BindInsert, GoTo, GoOn, Finish, Bound, Report, recordVars, tombVars,
      cleanupVars, purpose, localVars
<1>11. ASSUME NEW t \in Clients, Announce(t) PROVE OpeningFit'
  BY <1>11 DEF Announce, GoTo, GoOn, Finish, Bound, Report, recordVars, tombVars,
      cleanupVars, purpose, localVars
<1>12. ASSUME NEW t \in Clients, MatchTombstone(t) PROVE OpeningFit'
  BY <1>12 DEF MatchTombstone, GoTo, GoOn, Finish, Bound, Report, recordVars, tombVars,
      cleanupVars, purpose, localVars
<1>13. ASSUME NEW t \in Keepers, SweepRecords(t) PROVE OpeningFit'
  BY <1>13 DEF SweepRecords, GoTo, GoOn, Finish, Bound, Report, recordVars, tombVars,
      cleanupVars, purpose, localVars
<1>14. ASSUME NEW t \in Keepers, RevokeAll(t) PROVE OpeningFit'
  BY <1>14 DEF RevokeAll, GoTo, GoOn, Finish, Bound, Report, recordVars, tombVars,
      cleanupVars, purpose, localVars
<1>15. ASSUME NEW t \in Keepers, NEW o \in Owners, CloseTransport(t, o) PROVE OpeningFit'
  BY <1>15 DEF CloseTransport, GoTo, GoOn, Finish, Bound, Report, recordVars, tombVars,
      cleanupVars, purpose, localVars
<1>16. ASSUME NEW t \in Keepers, SweepActivity(t) PROVE OpeningFit'
  BY <1>16 DEF SweepActivity, GoTo, GoOn, Finish, Bound, Report, recordVars, tombVars,
      cleanupVars, purpose, localVars
<1>17. ASSUME NEW t \in Keepers, RevokeSnapshot(t) PROVE OpeningFit'
  BY <1>17 DEF RevokeSnapshot, GoTo, GoOn, Finish, Bound, Report, recordVars, tombVars,
      cleanupVars, purpose, localVars
<1>18. ASSUME NEW t \in Keepers, NextInBatch(t) PROVE OpeningFit'
  BY <1>18 DEF NextInBatch, GoTo, GoOn, Finish, Bound, Report, recordVars, tombVars,
      cleanupVars, purpose, localVars
<1>19. ASSUME NEW t \in Threads, Decide(t) PROVE OpeningFit'
  BY <1>19 DEF Decide, GoTo, GoOn, Finish, Bound, Report, recordVars, tombVars, cleanupVars,
      purpose, localVars
<1>20. ASSUME NEW t \in Threads, ForgetActivity(t) PROVE OpeningFit'
  BY <1>20 DEF ForgetActivity, GoTo, GoOn, Finish, Bound, Report, recordVars, tombVars,
      cleanupVars, purpose, localVars
<1>21. ASSUME NEW t \in Threads, Mark(t) PROVE OpeningFit'
  BY <1>21 DEF Mark, GoTo, GoOn, Finish, Bound, Report, recordVars, tombVars, cleanupVars,
      purpose, localVars
<1>22. ASSUME NEW t \in Threads, ClearScope(t) PROVE OpeningFit'
  BY <1>22 DEF ClearScope, GoTo, GoOn, Finish, Bound, Report, recordVars, tombVars,
      cleanupVars, purpose, localVars
<1>23. ASSUME NEW t \in Threads, InstallProgress(t) PROVE OpeningFit'
  BY <1>23 DEF InstallProgress, GoTo, GoOn, Finish, Bound, Report, recordVars, tombVars,
      cleanupVars, purpose, localVars
<1>24. ASSUME NEW t \in Threads, RetryBegin(t) PROVE OpeningFit'
  BY <1>24 DEF RetryBegin, GoTo, GoOn, Finish, Bound, Report, recordVars, tombVars,
      cleanupVars, purpose, localVars
<1>25. ASSUME NEW t \in Threads, RetryEnd(t) PROVE OpeningFit'
  BY <1>25 DEF RetryEnd, GoTo, GoOn, Finish, Bound, Report, recordVars, tombVars,
      cleanupVars, purpose, localVars
<1>26. ASSUME NEW t \in Threads, Touch(t) PROVE OpeningFit'
  BY <1>26 DEF Touch, GoTo, GoOn, Finish, Bound, Report, recordVars, tombVars, cleanupVars,
      purpose, localVars
<1>27. ASSUME NEW t \in Threads, NEW h \in Hooks, NEW b \in BOOLEAN, RunHook(t, h, b) PROVE OpeningFit'
  BY <1>27 DEF RunHook, GoTo, GoOn, Finish, Bound, Report, recordVars, tombVars, cleanupVars,
      purpose, localVars
<1>28. ASSUME NEW s \in Sessions, Idle(s) PROVE OpeningFit'
  BY <1>28 DEF Idle, GoTo, GoOn, Finish, Bound, Report, recordVars, tombVars, cleanupVars,
      purpose, localVars
<1> HIDE DEF Typed, SessionsTypeOK, CleanupFit, ReviveFit, OpeningFit, CleaningFit, TableFit,
    Threads, Opening, Cleaning, Ended
<1> QED BY <1>1, <1>2, <1>3, <1>4, <1>5, <1>6, <1>7, <1>8, <1>9, <1>10, <1>11, <1>12, <1>13,
    <1>14, <1>15, <1>16, <1>17, <1>18, <1>19, <1>20, <1>21, <1>22, <1>23, <1>24, <1>25,
        <1>26, <1>27, <1>28 DEF Next, Call, Keep, EndStep, Threads

\* Every action keeps the cleaning to one thread, and its books straight.
LEMMA CleaningStep ==
  ASSUME Typed, RunningIsRun, CleanupFit, Next
  PROVE  CleaningFit'
<1> USE DEF Typed, SessionsTypeOK, CleanupFit, ReviveFit, OpeningFit, CleaningFit, TableFit,
    Threads, Opening, Cleaning, Ended
<1>1. ASSUME NEW t \in Clients, NEW o \in Owners, NEW s \in Sessions, Admit(t, o, s) PROVE CleaningFit'
  BY <1>1 DEF Admit, GoTo, GoOn, Finish, Bound, Report, recordVars, tombVars, cleanupVars,
      purpose, localVars
<1>2. ASSUME NEW t \in Clients, NEW o \in Owners, NEW s \in Sessions, NEW p \in Policies \cup {"none"}, Start(t, o, s, p) PROVE CleaningFit'
  BY <1>2 DEF Start, GoTo, GoOn, Finish, Bound, Report, recordVars, tombVars, cleanupVars,
      purpose, localVars
<1>3. ASSUME NEW t \in Clients, NEW o \in Owners, NEW s \in Sessions, EndTool(t, o, s) PROVE CleaningFit'
  BY <1>3 DEF EndTool, GoTo, GoOn, Finish, Bound, Report, recordVars, tombVars, cleanupVars,
      purpose, localVars
<1>4. ASSUME NEW t \in Clients, Begin(t) PROVE CleaningFit'
  BY <1>4 DEF Begin, GoTo, GoOn, Finish, Bound, Report, recordVars, tombVars, cleanupVars,
      purpose, localVars
<1>5. ASSUME NEW t \in Clients, Escalate(t) PROVE CleaningFit'
  BY <1>5 DEF Escalate, GoTo, GoOn, Finish, Bound, Report, recordVars, tombVars, cleanupVars,
      purpose, localVars
<1>6. ASSUME NEW t \in Clients, Unlock(t) PROVE CleaningFit'
  BY <1>6 DEF Unlock, GoTo, GoOn, Finish, Bound, Report, recordVars, tombVars, cleanupVars,
      purpose, localVars
<1>7. ASSUME NEW t \in Clients, DropGuard(t) PROVE CleaningFit'
  BY <1>7 DEF DropGuard, GoTo, GoOn, Finish, Bound, Report, recordVars, tombVars,
      cleanupVars, purpose, localVars
<1>8. ASSUME NEW t \in Clients, Activate(t) PROVE CleaningFit'
  BY <1>8 DEF Activate, GoTo, GoOn, Finish, Bound, Report, recordVars, tombVars, cleanupVars,
      purpose, localVars
<1>9. ASSUME NEW t \in Clients, Bind(t) PROVE CleaningFit'
  BY <1>9 DEF Bind, GoTo, GoOn, Finish, Bound, Report, recordVars, tombVars, cleanupVars,
      purpose, localVars
<1>10. ASSUME NEW t \in Clients, BindInsert(t) PROVE CleaningFit'
  BY <1>10 DEF BindInsert, GoTo, GoOn, Finish, Bound, Report, recordVars, tombVars,
      cleanupVars, purpose, localVars
<1>11. ASSUME NEW t \in Clients, Announce(t) PROVE CleaningFit'
  BY <1>11 DEF Announce, GoTo, GoOn, Finish, Bound, Report, recordVars, tombVars,
      cleanupVars, purpose, localVars
<1>12. ASSUME NEW t \in Clients, MatchTombstone(t) PROVE CleaningFit'
  BY <1>12 DEF MatchTombstone, GoTo, GoOn, Finish, Bound, Report, recordVars, tombVars,
      cleanupVars, purpose, localVars
<1>13. ASSUME NEW t \in Keepers, SweepRecords(t) PROVE CleaningFit'
  BY <1>13 DEF SweepRecords, GoTo, GoOn, Finish, Bound, Report, recordVars, tombVars,
      cleanupVars, purpose, localVars
<1>14. ASSUME NEW t \in Keepers, RevokeAll(t) PROVE CleaningFit'
  BY <1>14 DEF RevokeAll, GoTo, GoOn, Finish, Bound, Report, recordVars, tombVars,
      cleanupVars, purpose, localVars
<1>15. ASSUME NEW t \in Keepers, NEW o \in Owners, CloseTransport(t, o) PROVE CleaningFit'
  BY <1>15 DEF CloseTransport, GoTo, GoOn, Finish, Bound, Report, recordVars, tombVars,
      cleanupVars, purpose, localVars
<1>16. ASSUME NEW t \in Keepers, SweepActivity(t) PROVE CleaningFit'
  BY <1>16 DEF SweepActivity, GoTo, GoOn, Finish, Bound, Report, recordVars, tombVars,
      cleanupVars, purpose, localVars
<1>17. ASSUME NEW t \in Keepers, RevokeSnapshot(t) PROVE CleaningFit'
  BY <1>17 DEF RevokeSnapshot, GoTo, GoOn, Finish, Bound, Report, recordVars, tombVars,
      cleanupVars, purpose, localVars
<1>18. ASSUME NEW t \in Keepers, NextInBatch(t) PROVE CleaningFit'
  BY <1>18 DEF NextInBatch, GoTo, GoOn, Finish, Bound, Report, recordVars, tombVars,
      cleanupVars, purpose, localVars
<1>19. ASSUME NEW t \in Threads, Decide(t) PROVE CleaningFit'
  BY <1>19 DEF Decide, GoTo, GoOn, Finish, Bound, Report, recordVars, tombVars, cleanupVars,
      purpose, localVars
<1>20. ASSUME NEW t \in Threads, ForgetActivity(t) PROVE CleaningFit'
  BY <1>20 DEF ForgetActivity, GoTo, GoOn, Finish, Bound, Report, recordVars, tombVars,
      cleanupVars, purpose, localVars
<1>21. ASSUME NEW t \in Threads, Mark(t) PROVE CleaningFit'
  BY <1>21 DEF Mark, GoTo, GoOn, Finish, Bound, Report, recordVars, tombVars, cleanupVars,
      purpose, localVars
<1>22. ASSUME NEW t \in Threads, ClearScope(t) PROVE CleaningFit'
  BY <1>22 DEF ClearScope, GoTo, GoOn, Finish, Bound, Report, recordVars, tombVars,
      cleanupVars, purpose, localVars
<1>23. ASSUME NEW t \in Threads, InstallProgress(t) PROVE CleaningFit'
  BY <1>23 DEF InstallProgress, GoTo, GoOn, Finish, Bound, Report, recordVars, tombVars,
      cleanupVars, purpose, localVars
<1>24. ASSUME NEW t \in Threads, RetryBegin(t) PROVE CleaningFit'
  BY <1>24 DEF RetryBegin, GoTo, GoOn, Finish, Bound, Report, recordVars, tombVars,
      cleanupVars, purpose, localVars
<1>25. ASSUME NEW t \in Threads, RetryEnd(t) PROVE CleaningFit'
  BY <1>25 DEF RetryEnd, GoTo, GoOn, Finish, Bound, Report, recordVars, tombVars,
      cleanupVars, purpose, localVars
<1>26. ASSUME NEW t \in Threads, Touch(t) PROVE CleaningFit'
  BY <1>26 DEF Touch, GoTo, GoOn, Finish, Bound, Report, recordVars, tombVars, cleanupVars,
      purpose, localVars
<1>27. ASSUME NEW t \in Threads, NEW h \in Hooks, NEW b \in BOOLEAN, RunHook(t, h, b) PROVE CleaningFit'
  BY <1>27 DEF RunHook, GoTo, GoOn, Finish, Bound, Report, recordVars, tombVars, cleanupVars,
      purpose, localVars
<1>28. ASSUME NEW s \in Sessions, Idle(s) PROVE CleaningFit'
  BY <1>28 DEF Idle, GoTo, GoOn, Finish, Bound, Report, recordVars, tombVars, cleanupVars,
      purpose, localVars
<1> HIDE DEF Typed, SessionsTypeOK, CleanupFit, ReviveFit, OpeningFit, CleaningFit, TableFit,
    Threads, Opening, Cleaning, Ended
<1> QED BY <1>1, <1>2, <1>3, <1>4, <1>5, <1>6, <1>7, <1>8, <1>9, <1>10, <1>11, <1>12, <1>13,
    <1>14, <1>15, <1>16, <1>17, <1>18, <1>19, <1>20, <1>21, <1>22, <1>23, <1>24, <1>25,
        <1>26, <1>27, <1>28 DEF Next, Call, Keep, EndStep, Threads

\* Every action keeps the table of what is left to clean.
LEMMA TableStep ==
  ASSUME Typed, RunningIsRun, CleanupFit, Next
  PROVE  TableFit'
<1> USE DEF Typed, SessionsTypeOK, CleanupFit, ReviveFit, OpeningFit, CleaningFit, TableFit,
    Threads, Opening, Cleaning, Ended
<1>1. ASSUME NEW t \in Clients, NEW o \in Owners, NEW s \in Sessions, Admit(t, o, s) PROVE TableFit'
  BY <1>1 DEF Admit, GoTo, GoOn, Finish, Bound, Report, recordVars, tombVars, cleanupVars,
      purpose, localVars
<1>2. ASSUME NEW t \in Clients, NEW o \in Owners, NEW s \in Sessions, NEW p \in Policies \cup {"none"}, Start(t, o, s, p) PROVE TableFit'
  BY <1>2 DEF Start, GoTo, GoOn, Finish, Bound, Report, recordVars, tombVars, cleanupVars,
      purpose, localVars
<1>3. ASSUME NEW t \in Clients, NEW o \in Owners, NEW s \in Sessions, EndTool(t, o, s) PROVE TableFit'
  BY <1>3 DEF EndTool, GoTo, GoOn, Finish, Bound, Report, recordVars, tombVars, cleanupVars,
      purpose, localVars
<1>4. ASSUME NEW t \in Clients, Begin(t) PROVE TableFit'
  BY <1>4 DEF Begin, GoTo, GoOn, Finish, Bound, Report, recordVars, tombVars, cleanupVars,
      purpose, localVars
<1>5. ASSUME NEW t \in Clients, Escalate(t) PROVE TableFit'
  BY <1>5 DEF Escalate, GoTo, GoOn, Finish, Bound, Report, recordVars, tombVars, cleanupVars,
      purpose, localVars
<1>6. ASSUME NEW t \in Clients, Unlock(t) PROVE TableFit'
  BY <1>6 DEF Unlock, GoTo, GoOn, Finish, Bound, Report, recordVars, tombVars, cleanupVars,
      purpose, localVars
<1>7. ASSUME NEW t \in Clients, DropGuard(t) PROVE TableFit'
  BY <1>7 DEF DropGuard, GoTo, GoOn, Finish, Bound, Report, recordVars, tombVars,
      cleanupVars, purpose, localVars
<1>8. ASSUME NEW t \in Clients, Activate(t) PROVE TableFit'
  BY <1>8 DEF Activate, GoTo, GoOn, Finish, Bound, Report, recordVars, tombVars, cleanupVars,
      purpose, localVars
<1>9. ASSUME NEW t \in Clients, Bind(t) PROVE TableFit'
  BY <1>9 DEF Bind, GoTo, GoOn, Finish, Bound, Report, recordVars, tombVars, cleanupVars,
      purpose, localVars
<1>10. ASSUME NEW t \in Clients, BindInsert(t) PROVE TableFit'
  BY <1>10 DEF BindInsert, GoTo, GoOn, Finish, Bound, Report, recordVars, tombVars,
      cleanupVars, purpose, localVars
<1>11. ASSUME NEW t \in Clients, Announce(t) PROVE TableFit'
  BY <1>11 DEF Announce, GoTo, GoOn, Finish, Bound, Report, recordVars, tombVars,
      cleanupVars, purpose, localVars
<1>12. ASSUME NEW t \in Clients, MatchTombstone(t) PROVE TableFit'
  BY <1>12 DEF MatchTombstone, GoTo, GoOn, Finish, Bound, Report, recordVars, tombVars,
      cleanupVars, purpose, localVars
<1>13. ASSUME NEW t \in Keepers, SweepRecords(t) PROVE TableFit'
  BY <1>13 DEF SweepRecords, GoTo, GoOn, Finish, Bound, Report, recordVars, tombVars,
      cleanupVars, purpose, localVars
<1>14. ASSUME NEW t \in Keepers, RevokeAll(t) PROVE TableFit'
  BY <1>14 DEF RevokeAll, GoTo, GoOn, Finish, Bound, Report, recordVars, tombVars,
      cleanupVars, purpose, localVars
<1>15. ASSUME NEW t \in Keepers, NEW o \in Owners, CloseTransport(t, o) PROVE TableFit'
  BY <1>15 DEF CloseTransport, GoTo, GoOn, Finish, Bound, Report, recordVars, tombVars,
      cleanupVars, purpose, localVars
<1>16. ASSUME NEW t \in Keepers, SweepActivity(t) PROVE TableFit'
  BY <1>16 DEF SweepActivity, GoTo, GoOn, Finish, Bound, Report, recordVars, tombVars,
      cleanupVars, purpose, localVars
<1>17. ASSUME NEW t \in Keepers, RevokeSnapshot(t) PROVE TableFit'
  BY <1>17 DEF RevokeSnapshot, GoTo, GoOn, Finish, Bound, Report, recordVars, tombVars,
      cleanupVars, purpose, localVars
<1>18. ASSUME NEW t \in Keepers, NextInBatch(t) PROVE TableFit'
  BY <1>18 DEF NextInBatch, GoTo, GoOn, Finish, Bound, Report, recordVars, tombVars,
      cleanupVars, purpose, localVars
<1>19. ASSUME NEW t \in Threads, Decide(t) PROVE TableFit'
  BY <1>19 DEF Decide, GoTo, GoOn, Finish, Bound, Report, recordVars, tombVars, cleanupVars,
      purpose, localVars
<1>20. ASSUME NEW t \in Threads, ForgetActivity(t) PROVE TableFit'
  BY <1>20 DEF ForgetActivity, GoTo, GoOn, Finish, Bound, Report, recordVars, tombVars,
      cleanupVars, purpose, localVars
<1>21. ASSUME NEW t \in Threads, Mark(t) PROVE TableFit'
  BY <1>21 DEF Mark, GoTo, GoOn, Finish, Bound, Report, recordVars, tombVars, cleanupVars,
      purpose, localVars
<1>22. ASSUME NEW t \in Threads, ClearScope(t) PROVE TableFit'
  BY <1>22 DEF ClearScope, GoTo, GoOn, Finish, Bound, Report, recordVars, tombVars,
      cleanupVars, purpose, localVars
<1>23. ASSUME NEW t \in Threads, InstallProgress(t) PROVE TableFit'
  BY <1>23 DEF InstallProgress, GoTo, GoOn, Finish, Bound, Report, recordVars, tombVars,
      cleanupVars, purpose, localVars
<1>24. ASSUME NEW t \in Threads, RetryBegin(t) PROVE TableFit'
  BY <1>24 DEF RetryBegin, GoTo, GoOn, Finish, Bound, Report, recordVars, tombVars,
      cleanupVars, purpose, localVars
<1>25. ASSUME NEW t \in Threads, RetryEnd(t) PROVE TableFit'
  <2>1. PICK s \in Sessions : s = sess[t]
    OBVIOUS
  <2>2. /\ Cleaning(t, s) /\ work[t] = {} /\ pc'[t] # "hooks"
        /\ UNCHANGED <<tombstones, torn, recycled, sess>>
        /\ \A u \in Threads : u # t => pc'[u] = pc[u]
    BY <1>25, <2>1 DEF RetryEnd, GoTo, GoOn, Finish, Report, tombVars
  <2>3. \A u \in Threads, x \in Sessions : Opening(u, x) => Opening(u, x)'
    BY <2>2
  <2>4. ASSUME NEW x \in Sessions \ recycled', x # s
        PROVE  /\ x \in progress' /\ (\A u \in Threads : ~Cleaning(u, x)') => torn'[x] = completed'[x]
               /\ x \notin progress' /\ Ended(x)' =>
                    torn'[x] = Hooks \/ \E u \in Threads : Opening(u, x)'
    <3>1. (x \in progress' <=> x \in progress) /\ completed'[x] = completed[x]
      BY <1>25, <2>1, <2>4 DEF RetryEnd
    <3>2. \A u \in Threads : Cleaning(u, x)' <=> Cleaning(u, x)
      BY <2>1, <2>2, <2>4
    <3> QED BY <2>2, <2>3, <2>4, <3>1, <3>2
  <2>5. ASSUME s \notin recycled
        PROVE  /\ s \in progress' => torn'[s] = completed'[s]
               /\ s \notin progress' => torn'[s] = Hooks
    <3>1. torn[s] = completed[s] \cup won[t] /\ s \in progress
      BY <2>2, <2>5
    <3>2. CASE completed[s] \cup won[t] = Hooks
      BY <1>25, <2>1, <2>2, <3>1, <3>2 DEF RetryEnd
    <3>3. CASE completed[s] \cup won[t] # Hooks
      BY <1>25, <2>1, <2>2, <3>1, <3>3 DEF RetryEnd
    <3> QED BY <3>2, <3>3
  <2> QED BY <2>2, <2>4, <2>5
<1>26. ASSUME NEW t \in Threads, Touch(t) PROVE TableFit'
  BY <1>26 DEF Touch, GoTo, GoOn, Finish, Bound, Report, recordVars, tombVars, cleanupVars,
      purpose, localVars
<1>27. ASSUME NEW t \in Threads, NEW h \in Hooks, NEW b \in BOOLEAN, RunHook(t, h, b) PROVE TableFit'
  BY <1>27 DEF RunHook, GoTo, GoOn, Finish, Bound, Report, recordVars, tombVars, cleanupVars,
      purpose, localVars
<1>28. ASSUME NEW s \in Sessions, Idle(s) PROVE TableFit'
  BY <1>28 DEF Idle, GoTo, GoOn, Finish, Bound, Report, recordVars, tombVars, cleanupVars,
      purpose, localVars
<1> HIDE DEF Typed, SessionsTypeOK, CleanupFit, ReviveFit, OpeningFit, CleaningFit, TableFit,
    Threads, Opening, Cleaning, Ended
<1> QED BY <1>1, <1>2, <1>3, <1>4, <1>5, <1>6, <1>7, <1>8, <1>9, <1>10, <1>11, <1>12, <1>13,
    <1>14, <1>15, <1>16, <1>17, <1>18, <1>19, <1>20, <1>21, <1>22, <1>23, <1>24, <1>25,
        <1>26, <1>27, <1>28 DEF Next, Call, Keep, EndStep, Threads

\* The first cleanup of an id is exact: its hooks run only once it is ended, a
\* hook that succeeded is never run again, whichever thread retries, and when
\* nothing is left to retry every hook has succeeded.
THEOREM FirstCleanupIsExact == Spec => []FirstCleanupExact
<1>1. Init => CleanupFit
  BY DEF Init, CleanupFit, ReviveFit, OpeningFit, CleaningFit, TableFit, Opening, Cleaning,
      Ended
<1>2. Typed /\ RunningIsRun /\ CleanupFit /\ [Next]_vars => CleanupFit'
  <2>1. ASSUME CleanupFit, UNCHANGED vars PROVE CleanupFit'
    BY <2>1 DEF CleanupFit, ReviveFit, OpeningFit, CleaningFit, TableFit, Opening, Cleaning,
        Ended,
                vars, tombVars, cleanupVars, purpose, localVars
  <2> QED BY <2>1, ReviveStep, OpeningStep, CleaningStep, TableStep DEF CleanupFit
<1>3. CleanupFit => FirstCleanupExact
  BY DEF CleanupFit, OpeningFit, CleaningFit, TableFit, Opening, Cleaning, FirstCleanupExact
<1> QED BY <1>1, <1>2, <1>3, TypedHolds, RunningHasARunner, PTL DEF Spec

=============================================================================
