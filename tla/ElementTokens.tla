---------------------------- MODULE ElementTokens ----------------------------
(***************************************************************************)
(* The element tokens of cua-driver: get_window_state walks a window's     *)
(* accessibility tree, puts the elements it found in the element cache of  *)
(* its runtime, registers the snapshot in the process-global token         *)
(* registry and hands out tokens; click turns a token back into a window   *)
(* and an index, and the index into a retained element of the cache.       *)
(*                                                                         *)
(* The cache and the registry have a lock each, and no lock covers both:   *)
(* every critical section is an action, and the calls of two sessions      *)
(* interleave between them.  The Windows tools are modelled (the Linux     *)
(* ones have the same steps without references; the macOS one takes a      *)
(* screenshot between its two).  A walk is a number: it stands for the     *)
(* elements it found, and walk n's element i is not walk m's.              *)
(*                                                                         *)
(* One application (pid) is modelled: a lane is keyed by runtime and pid   *)
(* and a cache by pid and window, so applications share the counter only,  *)
(* as runtimes do.                                                         *)
(***************************************************************************)
EXTENDS Integers, FiniteSets, Sequences

CONSTANTS
  Callers,    \* tool calls that run at the same time
  Runtimes,   \* runtime generations: scopes of the registry, each with a cache
  Windows,    \* windows of the application
  MaxCount,   \* most actionable elements a walk finds
  MaxWalks,   \* bound: completed walks in a behaviour
  IdSpace,    \* ids a snapshot counter has: 2^32 in the code
  LruCap,     \* LRU_CAP_PER_PID: snapshots a lane retains
  MaxOverdraws \* bound: releases without a reference in a behaviour

ASSUME TokenConstants ==
  /\ IsFiniteSet(Callers) /\ IsFiniteSet(Runtimes) /\ IsFiniteSet(Windows)
  /\ MaxCount \in Nat \ {0}
  /\ MaxWalks \in Nat
  /\ IdSpace \in Nat /\ IdSpace > 1
  /\ LruCap \in Nat \ {0}
  /\ MaxOverdraws \in Nat

VARIABLES
  counter,    \* SNAPSHOT_COUNTER: the id the next snapshot gets
  lanes,      \* TokenRegistry: the snapshots of each runtime, the newest last
  caches,     \* ElementCache of each runtime: the walk cached for each window
  found,      \* how many actionable elements each completed walk found
  refs,       \* AddRefs less Releases of each element of each walk
  overdrawn,  \* history: Releases of each element that undo no AddRef
  issued,     \* the tokens that replies have handed to clients
  call,       \* what each caller is doing
  phase       \* of each runtime: running, draining (shutdown waits), down

vars == <<counter, lanes, caches, found, refs, overdrawn, issued, call, phase>>

NoWalk == 0
Walks == 1..MaxWalks
Indexes == 0..MaxCount - 1
Ids == 0..IdSpace - 1

(* A SnapshotEntry of a lane; at is its place in the lane (later is newer) *)
(* and walk, for the properties only, the walk whose elements the client   *)
(* was shown with the id.                                                  *)
Entry == [id : Ids, window : Windows, count : 0..MaxCount, at : Nat, walk : Walks]

(* What a client holds: the runtime that answered it, the snapshot's id,   *)
(* and (for the properties) the walk it was shown.                         *)
Token == [runtime : Runtimes, id : Ids, walk : Walks]

(* The calls in flight: a get_window_state before and after its walk (keep *)
(* is FALSE for an _observation_only one), and a click, which means an     *)
(* element of the walk its client was shown, has seen the centre of an     *)
(* element of a cached walk, and holds a reference on one.                 *)
Idle == [pc |-> "idle"]
Walking == [pc : {"walking"}, runtime : Runtimes, window : Windows,
            keep : BOOLEAN]
Walked == [pc : {"walked", "cached", "minted", "registered"},
           runtime : Runtimes, window : Windows, keep : BOOLEAN,
           walk : Walks, id : Ids]
Clicking == [pc : {"resolved", "aimed", "holding"}, runtime : Runtimes,
             window : Windows, index : Indexes, meant : Walks,
             seen : {NoWalk} \cup Walks, held : {NoWalk} \cup Walks]

Completed == 1..Len(found)
Busy(r) == \E t \in Callers : call[t] # Idle /\ call[t].runtime = r

-----------------------------------------------------------------------------
Init ==
  /\ counter = 1
  /\ lanes = [r \in Runtimes |-> {}]
  /\ caches = [r \in Runtimes |-> [w \in Windows |-> NoWalk]]
  /\ found = << >>
  /\ refs = [n \in Walks |-> [i \in Indexes |-> 0]]
  /\ overdrawn = [n \in Walks |-> [i \in Indexes |-> 0]]
  /\ issued = {}
  /\ call = [t \in Callers |-> Idle]
  /\ phase = [r \in Runtimes |-> "running"]

(* invoke_with_context_and_evidence: a runtime that is shutting down       *)
(* admits no call, and a call it admits holds the lifecycle lock shared    *)
(* until it returns.  keep is FALSE for an _observation_only call.         *)
GetWindowState(t, r, w, keep) ==
  /\ call[t] = Idle
  /\ phase[r] = "running"
  /\ Len(found) < MaxWalks
  /\ call' = [call EXCEPT ![t] =
       [pc |-> "walking", runtime |-> r, window |-> w, keep |-> keep]]
  /\ UNCHANGED <<counter, lanes, caches, found, refs, overdrawn, issued, phase>>

(* walk_tree_bounded returns: the walker has taken one reference on every  *)
(* element it lists.                                                       *)
WalkEnds(t, n) ==
  LET walk == Len(found) + 1 IN
  /\ call[t].pc = "walking"
  /\ walk \in Walks
  /\ found' = Append(found, n)
  /\ refs' = [refs EXCEPT ![walk] = [i \in Indexes |-> IF i < n THEN 1 ELSE 0]]
  /\ call' = [call EXCEPT ![t] =
       [pc |-> "walked", runtime |-> @.runtime, window |-> @.window,
        keep |-> @.keep, walk |-> walk, id |-> 0]]
  /\ UNCHANGED <<counter, lanes, caches, overdrawn, issued, phase>>

(* The walk did not answer in four seconds, or the screenshot after it     *)
(* failed: the call returns an error, and what the walk found is neither   *)
(* cached nor released.                                                    *)
WalkFails(t) ==
  /\ call[t].pc = "walking"
  /\ call' = [call EXCEPT ![t] = Idle]
  /\ UNCHANGED <<counter, lanes, caches, found, refs, overdrawn, issued, phase>>

(* An _observation_only call answers without touching cache or registry.   *)
ObservationOnly(t) ==
  /\ call[t].pc = "walked"
  /\ ~call[t].keep
  /\ call' = [call EXCEPT ![t] = Idle]
  /\ UNCHANGED <<counter, lanes, caches, found, refs, overdrawn, issued, phase>>

(* ElementCache::update: the window's snapshot is replaced under the cache *)
(* lock, and the destructor of the old one releases its elements.          *)
UpdateCache(t) ==
  LET r == call[t].runtime
      w == call[t].window
      old == caches[r][w]
  IN
  /\ call[t].pc = "walked"
  /\ call[t].keep
  /\ caches' = [caches EXCEPT ![r][w] = call[t].walk]
  /\ refs' = [n \in Walks |-> [i \in Indexes |->
       IF n = old /\ i < found[old] THEN refs[n][i] - 1 ELSE refs[n][i]]]
  /\ call' = [call EXCEPT ![t].pc = "cached"]
  /\ UNCHANGED <<counter, lanes, found, overdrawn, issued, phase>>

(* mint_snapshot_id takes the id before register_snapshot takes the lock.  *)
(* A behaviour ends before the counter wraps (4 billion snapshots).        *)
IdsLeft == counter # 0
NextIdTruncated == counter % (IdSpace \div 2)
NextId == counter

MintSnapshot(t) ==
  /\ call[t].pc = "cached"
  /\ IdsLeft
  /\ counter' = (counter + 1) % IdSpace
  /\ call' = [call EXCEPT ![t].pc = "minted", ![t].id = NextId]
  /\ UNCHANGED <<lanes, caches, found, refs, overdrawn, issued, phase>>

(* The rest of register_snapshot: the lane forgets older snapshots of the  *)
(* window, gets the new one and drops the oldest ones over LRU_CAP_PER_PID.*)
Retained(lane, w) == {e \in lane : e.window # w}
EvictedLate(lane) ==
  {e \in lane : Cardinality({f \in lane : f.at > e.at}) <= LruCap}
Evicted(lane) ==
  {e \in lane : Cardinality({f \in lane : f.at > e.at}) < LruCap}
NextPlace(lane) == IF lane = {} THEN 0
                   ELSE (CHOOSE a \in {e.at : e \in lane} :
                           \A e \in lane : e.at <= a) + 1

RegisterSnapshot(t) ==
  LET r == call[t].runtime
      rest == Retained(lanes[r], call[t].window)
      entry == [id |-> call[t].id, window |-> call[t].window,
                count |-> found[call[t].walk], at |-> NextPlace(rest),
                walk |-> call[t].walk]
  IN
  /\ call[t].pc = "minted"
  /\ lanes' = [lanes EXCEPT ![r] = Evicted(rest \cup {entry})]
  /\ call' = [call EXCEPT ![t].pc = "registered"]
  /\ UNCHANGED <<counter, caches, found, refs, overdrawn, issued, phase>>

(* The reply carries the tokens; from here on a client may present them.   *)
Reply(t) ==
  /\ call[t].pc = "registered"
  /\ issued' = issued \cup {[runtime |-> call[t].runtime, id |-> call[t].id,
                              walk |-> call[t].walk]}
  /\ call' = [call EXCEPT ![t] = Idle]
  /\ UNCHANGED <<counter, lanes, caches, found, refs, overdrawn, phase>>

-----------------------------------------------------------------------------
(* TokenRegistry::resolve: the entries of the caller's lane that a token   *)
(* and an index of it resolve to.  max_element_index saturates at 0.       *)
Matches(r, id) == {e \in lanes[r] : e.id = id}
InRange(e, i) == i < e.count \/ i = 0

(* click with a token, or with a snapshot id and an index: any client may  *)
(* present any token it was given to any runtime.  A stale token, a token  *)
(* of another runtime and an index out of range change nothing.            *)
Click(t, tok, r, i) ==
  /\ call[t] = Idle
  /\ phase[r] = "running"
  /\ \E e \in Matches(r, tok.id) :
       /\ InRange(e, i)
       /\ call' = [call EXCEPT ![t] =
            [pc |-> "resolved", runtime |-> r, window |-> e.window,
             index |-> i, meant |-> tok.walk, seen |-> NoWalk, held |-> NoWalk]]
  /\ UNCHANGED <<counter, lanes, caches, found, refs, overdrawn, issued, phase>>

(* The walk whose element the cache has at the click's window and index.   *)
CachedAt(t) == caches[call[t].runtime][call[t].window]
IsCached(t) == CachedAt(t) # NoWalk /\ call[t].index < found[CachedAt(t)]

(* get_element_kind_and_role and get_element_center (one lock each; a      *)
(* window's kind never changes): the point that the overlay glides to.     *)
Aim(t) ==
  /\ call[t].pc = "resolved"
  /\ call' = [call EXCEPT ![t] =
       IF IsCached(t) THEN [@ EXCEPT !.pc = "aimed", !.seen = CachedAt(t)]
       ELSE Idle]
  /\ UNCHANGED <<counter, lanes, caches, found, refs, overdrawn, issued, phase>>

RetainElementBare(t) ==
  /\ call[t].pc = "aimed"
  /\ IsCached(t)
  /\ call' = [call EXCEPT ![t].pc = "holding", ![t].held = CachedAt(t)]
  /\ UNCHANGED <<counter, lanes, caches, found, refs, overdrawn, issued, phase>>

(* get_element_retained: the element is looked up again, and a reference   *)
(* is added under the same lock.                                           *)
RetainElement(t) ==
  LET n == CachedAt(t)
      i == call[t].index
  IN
  /\ call[t].pc = "aimed"
  /\ IsCached(t)
  /\ refs' = [refs EXCEPT ![n][i] = @ + 1]
  /\ call' = [call EXCEPT ![t].pc = "holding", ![t].held = n]
  /\ UNCHANGED <<counter, lanes, caches, found, overdrawn, issued, phase>>

(* No element is held: an MSAA element, a right or double click, or an     *)
(* index the cache no longer has.  The click is posted at the point.       *)
PostAtPoint(t) ==
  /\ call[t].pc = "aimed"
  /\ call' = [call EXCEPT ![t] = Idle]
  /\ UNCHANGED <<counter, lanes, caches, found, refs, overdrawn, issued, phase>>

(* The patterns of the held element are tried, or its expansion (a click   *)
(* that none of them takes is posted at the point; where its code retains  *)
(* the element once more for that, it does what another click would), and  *)
(* RetainedElement::drop releases it.                                      *)
InvokeAndRelease(t) ==
  /\ call[t].pc = "holding"
  /\ refs' = [refs EXCEPT ![call[t].held][call[t].index] = @ - 1]
  /\ call' = [call EXCEPT ![t] = Idle]
  /\ UNCHANGED <<counter, lanes, caches, found, overdrawn, issued, phase>>

(* A click with action "expand" makes a second owner of the reference it   *)
(* holds (from_raw) and forgets that owner only once the element has       *)
(* answered for its ExpandCollapsePattern.  An element without one lets    *)
(* both owners go: two Releases for one AddRef.  refs is a balance: below  *)
(* one the element is destroyed, and what follows is counted all the same. *)
Overdraws ==
  {x \in Walks \X Indexes \X (1..MaxOverdraws) : x[3] <= overdrawn[x[1]][x[2]]}

ExpandUnavailable(t) ==
  /\ call[t].pc = "holding"
  /\ Cardinality(Overdraws) < MaxOverdraws
  /\ refs' = [refs EXCEPT ![call[t].held][call[t].index] = @ - 2]
  /\ overdrawn' = [overdrawn EXCEPT ![call[t].held][call[t].index] = @ + 1]
  /\ call' = [call EXCEPT ![t] = Idle]
  /\ UNCHANGED <<counter, lanes, caches, found, issued, phase>>

-----------------------------------------------------------------------------
(* DriverRuntime::shutdown: the flag refuses new calls, the write lock     *)
(* waits for those in flight, and then the registry forgets the runtime.   *)
BeginShutdown(r) ==
  /\ phase[r] = "running"
  /\ phase' = [phase EXCEPT ![r] = "draining"]
  /\ UNCHANGED <<counter, lanes, caches, found, refs, overdrawn, issued, call>>

FinishShutdownUndrained(r) ==
  /\ phase[r] = "draining"
  /\ phase' = [phase EXCEPT ![r] = "down"]
  /\ lanes' = [lanes EXCEPT ![r] = {}]
  /\ UNCHANGED <<counter, caches, found, refs, overdrawn, issued, call>>

FinishShutdown(r) ==
  /\ phase[r] = "draining"
  /\ ~Busy(r)
  /\ phase' = [phase EXCEPT ![r] = "down"]
  /\ lanes' = [lanes EXCEPT ![r] = {}]
  /\ UNCHANGED <<counter, caches, found, refs, overdrawn, issued, call>>

Next ==
  \/ \E t \in Callers :
       \/ \E r \in Runtimes, w \in Windows, keep \in BOOLEAN :
            GetWindowState(t, r, w, keep)
       \/ \E n \in 0..MaxCount : WalkEnds(t, n)
       \/ WalkFails(t)
       \/ ObservationOnly(t)
       \/ UpdateCache(t)
       \/ MintSnapshot(t)
       \/ RegisterSnapshot(t)
       \/ Reply(t)
       \/ \E tok \in issued, r \in Runtimes, i \in Indexes : Click(t, tok, r, i)
       \/ Aim(t)
       \/ RetainElement(t)
       \/ PostAtPoint(t)
       \/ InvokeAndRelease(t)
       \/ ExpandUnavailable(t)
  \/ \E r \in Runtimes : BeginShutdown(r) \/ FinishShutdown(r)

Spec == Init /\ [][Next]_vars

-----------------------------------------------------------------------------
(* Every variable has its type; a lane keeps at most LRU_CAP_PER_PID       *)
(* snapshots and one of each window, all of completed walks.               *)
TokensTypeOK ==
  /\ counter \in Ids
  /\ lanes \in [Runtimes -> SUBSET Entry]
  /\ \A r \in Runtimes :
       /\ Cardinality(lanes[r]) <= LruCap
       /\ \A e, f \in lanes[r] : e.window = f.window => e = f
  /\ caches \in [Runtimes -> [Windows -> {NoWalk} \cup Completed]]
  /\ found \in Seq(0..MaxCount) /\ Len(found) <= MaxWalks
  /\ refs \in [Walks -> [Indexes -> Int]]
  /\ overdrawn \in [Walks -> [Indexes -> Nat]]
  /\ issued \subseteq Token
  /\ call \in [Callers -> {Idle} \cup Walking \cup Walked \cup Clicking]
  /\ phase \in [Runtimes -> {"running", "draining", "down"}]

(* A token names one snapshot of one runtime: whatever lane is asked, the  *)
(* entry it matches is that of the walk its client was shown, and it is in *)
(* the lane of the runtime that issued it (the id is minted outside the    *)
(* lock and is never reused; element_token.rs 121-126, 240-252).           *)
TokenNamesItsSnapshot ==
  \A tok \in issued, r \in Runtimes :
    \A e \in Matches(r, tok.id) : e.walk = tok.walk /\ r = tok.runtime

(* How many can still dereference an element: the cached snapshot, the     *)
(* walk not yet cached, and every click that holds it.                     *)
Holders(n, i) ==
  Cardinality({t \in Callers : \/ /\ call[t].pc = "walked"
                                  /\ call[t].walk = n
                               \/ /\ call[t].pc = "holding"
                                  /\ call[t].held = n /\ call[t].index = i})
  + Cardinality({rw \in Runtimes \X Windows : caches[rw[1]][rw[2]] = n})

(* An element loses references to unavailable expansions only, one to      *)
(* each: apart from those, every holder has a reference of its own on it,  *)
(* however calls interleave and whatever snapshots are replaced meanwhile  *)
(* (get_element_retained adds it under the lock under which update         *)
(* releases the old snapshot; cache.rs 186-193).                           *)
OnlyExpandsOverdraw ==
  \A n \in Completed : \A i \in Indexes :
    i < found[n] => refs[n][i] + overdrawn[n][i] >= Holders(n, i)

(* After shutdown the registry holds nothing of the runtime, and no call   *)
(* of it is left that could register or resolve a snapshot again.          *)
ShutdownForgets ==
  \A r \in Runtimes :
    phase[r] = "down" => lanes[r] = {} /\ ~Busy(r)

(* What register_snapshot's comment promises (element_token.rs 126-129): a *)
(* token of an element its client was shown is never resolved against the  *)
(* newer cache, so what the click holds is an element of that snapshot.    *)
TokenHitsItsSnapshot ==
  \A t \in Callers :
    call[t].pc = "holding" /\ call[t].index < found[call[t].meant]
      => call[t].held = call[t].meant

=============================================================================
