------------------------ MODULE ElementTokensProofs -------------------------
(***************************************************************************)
(* Proofs about ElementTokens, for every number of callers, runtimes,      *)
(* windows, elements, walks and ids.                                       *)
(***************************************************************************)
EXTENDS ElementTokens, TableSumProofs, FiniteSetTheorems

-----------------------------------------------------------------------------
(* Lanes.  A finite nonempty set of entries has a newest one, so the place *)
(* a new entry gets is one above all others.                               *)

\* A finite nonempty lane has a newest entry.
LEMMA NewestEntry ==
  ASSUME NEW lane \in SUBSET Entry, IsFiniteSet(lane), lane # {}
  PROVE  \E m \in lane : \A e \in lane : e.at <= m.at
<1> DEFINE HasNewest(L) == \E m \in L : \A e \in L : e.at <= m.at
           Counter == {L \in SUBSET Entry : IsFiniteSet(L) /\ L # {} /\ ~HasNewest(L)}
           Sizes == {n \in Nat : \E L \in Counter : Cardinality(L) = n}
<1> SUFFICES ASSUME lane \in Counter PROVE FALSE
  OBVIOUS
<1>1. Cardinality(lane) \in Sizes
  BY FS_CardinalityType
<1>2. PICK n \in Sizes : \A k \in Sizes : n <= k
  BY <1>1, LeastElement
<1>3. PICK L \in Counter : Cardinality(L) = n
  BY <1>2
<1>4. PICK x \in L : TRUE
  BY <1>3
<1>5. IsFiniteSet(L \ {x}) /\ Cardinality(L \ {x}) = n - 1 /\ n - 1 \in Nat
  <2>1. IsFiniteSet(L \ {x}) /\ Cardinality(L \ {x}) = n - 1
    BY <1>3, <1>4, FS_RemoveElement
  <2> QED BY <2>1, FS_CardinalityType
<1>6. L \ {x} \notin Counter
  <2> SUFFICES ASSUME L \ {x} \in Counter PROVE FALSE
    OBVIOUS
  <2>1. n - 1 \in Sizes
    BY <1>5
  <2>2. n \in Nat
    BY <1>2
  <2> HIDE DEF Sizes
  <2> QED BY <1>2, <2>1, <2>2
<1>7. \A e \in L : e.at \in Nat
  BY DEF Entry
<1>8. CASE L \ {x} = {}
  BY <1>4, <1>7, <1>8
<1>9. CASE L \ {x} # {}
  <2>1. PICK m \in L \ {x} : \A e \in L \ {x} : e.at <= m.at
    BY <1>5, <1>6, <1>9
  <2>2. CASE x.at <= m.at
    BY <2>1, <2>2
  <2>3. CASE ~(x.at <= m.at)
    <3>1. \A e \in L : e.at <= x.at
      BY <1>4, <1>7, <2>1, <2>3
    <3> QED BY <1>4, <3>1
  <2> QED BY <2>2, <2>3
<1> QED BY <1>8, <1>9

\* The place of a new entry is above every place of the lane.
LEMMA NextPlaceIsAbove ==
  ASSUME NEW lane \in SUBSET Entry, IsFiniteSet(lane)
  PROVE  NextPlace(lane) \in Nat /\ \A e \in lane : e.at < NextPlace(lane)
<1>1. CASE lane = {}
  BY <1>1 DEF NextPlace
<1>2. CASE lane # {}
  <2> DEFINE Newest(a) == \A e \in lane : e.at <= a
             a0 == CHOOSE a \in {e.at : e \in lane} : Newest(a)
  <2>1. \E a \in {e.at : e \in lane} : Newest(a)
    BY <1>2, NewestEntry
  <2>2. a0 \in {e.at : e \in lane} /\ Newest(a0)
    BY <2>1, Zenon
  <2>3. \A e \in lane : e.at \in Nat
    BY DEF Entry
  <2>4. NextPlace(lane) = a0 + 1
    BY <1>2 DEF NextPlace
  <2> HIDE DEF a0
  <2> QED BY <2>2, <2>3, <2>4
<1> QED BY <1>1, <1>2

(* What every lane is: places and windows are unique, and at most          *)
(* LRU_CAP_PER_PID entries are kept.                                       *)
LaneFit(lane) ==
  /\ lane \in SUBSET Entry
  /\ IsFiniteSet(lane)
  /\ \A e, f \in lane : e.at = f.at => e = f
  /\ \A e, f \in lane : e.window = f.window => e = f
  /\ Cardinality(lane) <= LruCap

\* Dropping the oldest entries leaves at most LRU_CAP_PER_PID of them.
LEMMA EvictionBounds ==
  ASSUME NEW lane \in SUBSET Entry, IsFiniteSet(lane),
         \A e, f \in lane : e.at = f.at => e = f
  PROVE  Evicted(lane) \subseteq lane /\ Cardinality(Evicted(lane)) <= LruCap
<1> DEFINE kept == Evicted(lane)
<1>1. kept \subseteq lane /\ IsFiniteSet(kept)
  BY FS_Subset DEF Evicted
<1>2. CASE kept = {}
  BY <1>1, <1>2, FS_EmptySet, TokenConstants
<1>3. CASE kept # {}
  <2>1. {e.at : e \in kept} \in SUBSET Nat /\ {e.at : e \in kept} # {}
    BY <1>1, <1>3 DEF Entry
  <2>0. PICK a \in {e.at : e \in kept} : \A k \in {e.at : e \in kept} : a <= k
    BY <2>1, LeastElement
  <2>2. PICK m \in kept : \A e \in kept : m.at <= e.at
    BY <2>0
  <2> DEFINE above == {f \in lane : f.at > m.at}
  <2>3. kept \ {m} \subseteq above
    BY <1>1, <2>2 DEF Entry
  <2>4. IsFiniteSet(above) /\ Cardinality(above) \in Nat /\ Cardinality(above) < LruCap
    BY <2>2, FS_Subset, FS_CardinalityType DEF Evicted
  <2>5. Cardinality(kept \ {m}) <= Cardinality(above)
    BY <2>3, <2>4, FS_Subset
  <2>6. Cardinality(kept \ {m}) = Cardinality(kept) - 1 /\ Cardinality(kept) \in Nat
    BY <1>1, <2>2, FS_RemoveElement, FS_CardinalityType
  <2> QED BY <1>1, <2>4, <2>5, <2>6, TokenConstants
<1> QED BY <1>2, <1>3

\* A sequence's elements are of its type.
LEMMA ElementOf ==
  ASSUME NEW S, NEW s \in Seq(S), NEW k \in 1..Len(s)
  PROVE  s[k] \in S
OBVIOUS


-----------------------------------------------------------------------------
Shown == {"walked", "cached", "minted", "registered"}

(* The types, and what ties a call to the walks completed so far: a call   *)
(* that has walked has a completed walk, and a held element is one that    *)
(* its walk found.                                                         *)
Typed ==
  /\ counter \in Ids
  /\ lanes \in [Runtimes -> SUBSET Entry]
  /\ \A r \in Runtimes : LaneFit(lanes[r])
  /\ caches \in [Runtimes -> [Windows -> {NoWalk} \cup Completed]]
  /\ found \in Seq(0..MaxCount) /\ Len(found) <= MaxWalks
  /\ refs \in [Walks -> [Indexes -> Int]]
  /\ overdrawn \in [Walks -> [Indexes -> Nat]]
  /\ issued \subseteq Token
  /\ call \in [Callers -> {Idle} \cup Walking \cup Walked \cup Clicking]
  /\ \A t \in Callers : call[t].pc \in Shown => call[t].walk \in Completed
  /\ \A t \in Callers : call[t].pc = "holding" =>
       call[t].held \in Completed /\ call[t].index < found[call[t].held]
  /\ phase \in [Runtimes -> {"running", "draining", "down"}]

\* What a call's place says of its record.
LEMMA CallKnown ==
  ASSUME Typed, NEW t \in Callers
  PROVE  /\ call[t].pc = "walking" => call[t] \in Walking
         /\ call[t].pc \in Shown => call[t] \in Walked
         /\ call[t].pc \in {"resolved", "aimed", "holding"} => call[t] \in Clicking
         /\ call[t].pc = "idle" <=> call[t] = Idle
BY DEF Typed, Idle, Walking, Walked, Clicking, Shown

\* The initial state is typed.
LEMMA InitTyped == Init => Typed
<1> SUFFICES ASSUME Init PROVE Typed
  OBVIOUS
<1> USE TokenConstants
<1>1. counter \in Ids /\ found \in Seq(0..MaxCount) /\ Len(found) <= MaxWalks
  BY DEF Init, Ids
<1>2. \A t \in Callers : call[t] = Idle /\ call[t].pc = "idle"
  BY DEF Init, Idle
<1>3. LaneFit({})
  BY FS_EmptySet DEF LaneFit
<1> QED
  BY <1>1, <1>2, <1>3 DEF Init, Typed, Shown, Idle

\* The entry that register_snapshot inserts, and the lane it leaves.
NewEntry(t) ==
  [id |-> call[t].id, window |-> call[t].window, count |-> found[call[t].walk],
   at |-> NextPlace(Retained(lanes[call[t].runtime], call[t].window)),
   walk |-> call[t].walk]
NewLane(t) ==
  Evicted(Retained(lanes[call[t].runtime], call[t].window) \cup {NewEntry(t)})

\* register_snapshot leaves a lane that fits.
LEMMA RegisteredLane ==
  ASSUME Typed, NEW t \in Callers, RegisterSnapshot(t)
  PROVE  /\ call[t].runtime \in Runtimes
         /\ lanes' = [lanes EXCEPT ![call[t].runtime] = NewLane(t)]
         /\ NewEntry(t) \in Entry
         /\ NewLane(t) \subseteq lanes[call[t].runtime] \cup {NewEntry(t)}
         /\ LaneFit(NewLane(t))
<1> DEFINE rest == Retained(lanes[call[t].runtime], call[t].window)
           all == rest \cup {NewEntry(t)}
<1>1. call[t] \in Walked /\ call[t].walk \in Completed /\ call[t].pc = "minted"
  BY CallKnown DEF RegisterSnapshot, Shown, Typed
<1>2. call[t].runtime \in Runtimes /\ call[t].id \in Ids /\ call[t].window \in Windows
      /\ call[t].walk \in Walks
  BY <1>1 DEF Walked
<1>3. found[call[t].walk] \in 0..MaxCount
  <2>1. found \in Seq(0..MaxCount) /\ call[t].walk \in 1..Len(found)
    BY <1>1 DEF Typed, Completed
  <2> QED BY <2>1, ElementOf
<1>4. rest \in SUBSET Entry /\ IsFiniteSet(rest) /\ rest \subseteq lanes[call[t].runtime]
  BY <1>2, FS_Subset DEF Typed, LaneFit, Retained
<1>5. NextPlace(rest) \in Nat /\ \A e \in rest : e.at < NextPlace(rest)
  BY <1>4, NextPlaceIsAbove
<1>6. NewEntry(t) \in Entry /\ NewEntry(t).at = NextPlace(rest) /\ NewEntry(t).window = call[t].window
  BY <1>2, <1>3, <1>5 DEF NewEntry, Entry
<1>7. all \in SUBSET Entry /\ IsFiniteSet(all)
  BY <1>4, <1>6, FS_AddElement
<1>8. \A e, f \in rest : (e.at = f.at => e = f) /\ (e.window = f.window => e = f)
  BY <1>2, <1>4 DEF Typed, LaneFit
<1>9. \A e \in rest : e.at # NewEntry(t).at /\ e.window # NewEntry(t).window
  <2>1. \A e \in rest : e.at \in Nat
    BY <1>4 DEF Entry
  <2> QED BY <1>5, <1>6, <2>1 DEF Retained
<1>10. \A e, f \in all : (e.at = f.at => e = f) /\ (e.window = f.window => e = f)
  BY <1>8, <1>9
<1>11. Evicted(all) \subseteq all /\ Cardinality(Evicted(all)) <= LruCap /\ IsFiniteSet(Evicted(all))
  BY <1>7, <1>10, EvictionBounds, FS_Subset
<1>12. LaneFit(NewLane(t))
  BY <1>7, <1>10, <1>11 DEF LaneFit, NewLane
<1>13. lanes' = [lanes EXCEPT ![call[t].runtime] = NewLane(t)]
  BY DEF RegisterSnapshot, NewLane, NewEntry
<1> QED BY <1>2, <1>4, <1>6, <1>11, <1>12, <1>13 DEF NewLane

\* Every action keeps the types.
LEMMA StepTyped ==
  ASSUME Typed, Next
  PROVE  Typed'
<1> USE TokenConstants DEF Typed, Completed, Shown
<1>1. ASSUME NEW t \in Callers, NEW r \in Runtimes, NEW w \in Windows, NEW keep \in BOOLEAN,
             GetWindowState(t, r, w, keep)
      PROVE  Typed'
  <2>1. PICK c : c = [pc |-> "walking", runtime |-> r, window |-> w, keep |-> keep]
    OBVIOUS
  <2>2. c \in Walking /\ c.pc = "walking"
    BY <2>1 DEF Walking
  <2>3. call' = [call EXCEPT ![t] = c]
    BY <1>1, <2>1 DEF GetWindowState
  <2> QED BY <1>1, <2>2, <2>3 DEF GetWindowState
<1>2. ASSUME NEW t \in Callers, NEW n \in 0..MaxCount, WalkEnds(t, n) PROVE Typed'
  <2> DEFINE walk == Len(found) + 1
  <2>1. call[t] \in Walking /\ walk \in Walks
    BY <1>2, CallKnown DEF WalkEnds
  <2>2. PICK c : c = [pc |-> "walked", runtime |-> call[t].runtime, window |-> call[t].window,
                      keep |-> call[t].keep, walk |-> walk, id |-> 0]
    OBVIOUS
  <2>3. c \in Walked /\ c.pc = "walked" /\ c.walk = walk
    BY <2>1, <2>2 DEF Walked, Walking, Ids
  <2>4. call' = [call EXCEPT ![t] = c]
    BY <1>2, <2>2 DEF WalkEnds
  <2>5. /\ found' = Append(found, n) /\ found' \in Seq(0..MaxCount) /\ Len(found') = walk
        /\ \A k \in 1..Len(found) : found'[k] = found[k]
    BY <1>2 DEF WalkEnds
  <2>6. walk <= MaxWalks /\ 1..Len(found) \subseteq 1..Len(found') /\ walk \in 1..Len(found')
    BY <2>1, <2>5 DEF Walks
  <2>7. refs' \in [Walks -> [Indexes -> Int]]
    <3>1. PICK g : g = [i \in Indexes |-> IF i < n THEN 1 ELSE 0]
      OBVIOUS
    <3>2. g \in [Indexes -> Int]
      BY <3>1
    <3>3. refs' = [refs EXCEPT ![walk] = g]
      BY <1>2, <3>1 DEF WalkEnds
    <3> QED BY <3>2, <3>3
  <2>8. /\ call' \in [Callers -> {Idle} \cup Walking \cup Walked \cup Clicking]
        /\ \A x \in Callers : call'[x].pc \in Shown => call'[x].walk \in 1..Len(found')
        /\ \A x \in Callers : call'[x].pc = "holding" =>
             call'[x].held \in 1..Len(found') /\ call'[x].index < found'[call'[x].held]
    BY <2>3, <2>4, <2>5, <2>6
  <2>9. caches' \in [Runtimes -> [Windows -> {NoWalk} \cup 1..Len(found')]]
    BY <1>2, <2>6 DEF WalkEnds
  <2> QED BY <1>2, <2>5, <2>6, <2>7, <2>8, <2>9 DEF WalkEnds
<1>3. ASSUME NEW t \in Callers, WalkFails(t) \/ ObservationOnly(t) \/ PostAtPoint(t) PROVE Typed'
  <2>1. call' = [call EXCEPT ![t] = Idle] /\ Idle.pc = "idle"
    BY <1>3 DEF WalkFails, ObservationOnly, PostAtPoint, Idle
  <2> QED BY <1>3, <2>1 DEF WalkFails, ObservationOnly, PostAtPoint
<1>4. ASSUME NEW t \in Callers, UpdateCache(t) PROVE Typed'
  <2>1. call[t] \in Walked /\ call[t].walk \in Completed /\ call[t].runtime \in Runtimes
        /\ call[t].window \in Windows
    BY <1>4, CallKnown DEF UpdateCache, Walked
  <2>2. PICK c : c = [call[t] EXCEPT !.pc = "cached"]
    OBVIOUS
  <2>3. c \in Walked /\ c.pc = "cached" /\ c.walk = call[t].walk
    BY <2>1, <2>2 DEF Walked
  <2>4. call' = [call EXCEPT ![t] = c]
    BY <1>4, <2>2 DEF UpdateCache
  <2>5. PICK row : row = [caches[call[t].runtime] EXCEPT ![call[t].window] = call[t].walk]
    OBVIOUS
  <2>6. row \in [Windows -> {NoWalk} \cup Completed] /\ caches' = [caches EXCEPT ![call[t].runtime] = row]
    BY <1>4, <2>1, <2>5 DEF UpdateCache
  <2>7. caches' \in [Runtimes -> [Windows -> {NoWalk} \cup Completed]]
    BY <2>1, <2>6
  <2>8. refs' \in [Walks -> [Indexes -> Int]]
    BY <1>4 DEF UpdateCache
  <2> QED BY <1>4, <2>3, <2>4, <2>7, <2>8 DEF UpdateCache
<1>5. ASSUME NEW t \in Callers, MintSnapshot(t) PROVE Typed'
  <2>1. call[t] \in Walked /\ call[t].walk \in Completed /\ counter' \in Ids
    <3>1. counter' = (counter + 1) % IdSpace /\ counter \in Ids
      BY <1>5 DEF MintSnapshot
    <3>2. counter' \in Ids
      BY <3>1 DEF Ids
    <3> QED BY <1>5, <3>2, CallKnown DEF MintSnapshot
  <2>2. PICK c : c = [call[t] EXCEPT !.pc = "minted", !.id = NextId]
    OBVIOUS
  <2>3. c \in Walked /\ c.pc = "minted" /\ c.walk = call[t].walk
    BY <2>1, <2>2 DEF Walked, NextId
  <2>4. call' = [call EXCEPT ![t] = c]
    BY <1>5, <2>2 DEF MintSnapshot
  <2> QED BY <1>5, <2>1, <2>3, <2>4 DEF MintSnapshot
<1>6. ASSUME NEW t \in Callers, RegisterSnapshot(t) PROVE Typed'
  <2>1. call[t] \in Walked /\ call[t].walk \in Completed
    BY <1>6, CallKnown DEF RegisterSnapshot
  <2>2. PICK c : c = [call[t] EXCEPT !.pc = "registered"]
    OBVIOUS
  <2>3. c \in Walked /\ c.pc = "registered" /\ c.walk = call[t].walk
    BY <2>1, <2>2 DEF Walked
  <2>4. call' = [call EXCEPT ![t] = c]
    BY <1>6, <2>2 DEF RegisterSnapshot
  <2>5. /\ lanes' \in [Runtimes -> SUBSET Entry]
        /\ \A r \in Runtimes : LaneFit(lanes'[r])
    <3>1. /\ call[t].runtime \in Runtimes /\ LaneFit(NewLane(t))
          /\ lanes' = [lanes EXCEPT ![call[t].runtime] = NewLane(t)]
      BY <1>6, RegisteredLane
    <3>2. NewLane(t) \in SUBSET Entry
      BY <3>1 DEF LaneFit
    <3> QED BY <3>1, <3>2
  <2> QED BY <1>6, <2>3, <2>4, <2>5 DEF RegisterSnapshot
<1>7. ASSUME NEW t \in Callers, Reply(t) PROVE Typed'
  <2>1. call[t] \in Walked /\ call[t].walk \in Completed
    BY <1>7, CallKnown DEF Reply
  <2>2. [runtime |-> call[t].runtime, id |-> call[t].id, walk |-> call[t].walk] \in Token
    BY <2>1 DEF Walked, Token
  <2>3. call' = [call EXCEPT ![t] = Idle] /\ Idle.pc = "idle"
    BY <1>7 DEF Reply, Idle
  <2> QED BY <1>7, <2>2, <2>3 DEF Reply
<1>8. ASSUME NEW t \in Callers, NEW tok \in issued, NEW r \in Runtimes, NEW i \in Indexes,
             Click(t, tok, r, i)
      PROVE  Typed'
  <2>1. PICK e \in Matches(r, tok.id) :
          call' = [call EXCEPT ![t] = [pc |-> "resolved", runtime |-> r, window |-> e.window,
             index |-> i, meant |-> tok.walk, seen |-> NoWalk, held |-> NoWalk]]
    BY <1>8 DEF Click
  <2>2. e \in Entry /\ tok \in Token
    BY DEF Matches
  <2>3. PICK c : c = [pc |-> "resolved", runtime |-> r, window |-> e.window,
             index |-> i, meant |-> tok.walk, seen |-> NoWalk, held |-> NoWalk]
    OBVIOUS
  <2>4. c \in Clicking /\ c.pc = "resolved"
    BY <2>2, <2>3 DEF Clicking, Entry, Token
  <2>5. call' = [call EXCEPT ![t] = c]
    BY <2>1, <2>3
  <2> QED BY <1>8, <2>4, <2>5 DEF Click
<1>9. ASSUME NEW t \in Callers, Aim(t) PROVE Typed'
  <2>1. call[t] \in Clicking
    BY <1>9, CallKnown DEF Aim
  <2>2. CachedAt(t) \in {NoWalk} \cup Walks
    BY <2>1 DEF CachedAt, Clicking, Walks
  <2>3. PICK c : c = IF IsCached(t) THEN [call[t] EXCEPT !.pc = "aimed", !.seen = CachedAt(t)]
                     ELSE Idle
    OBVIOUS
  <2>4. c \in {Idle} \cup Clicking /\ c.pc \in {"aimed", "idle"}
    BY <2>1, <2>2, <2>3 DEF Clicking, Idle
  <2>5. call' = [call EXCEPT ![t] = c]
    BY <1>9, <2>3 DEF Aim
  <2> QED BY <1>9, <2>4, <2>5 DEF Aim
<1>10. ASSUME NEW t \in Callers, RetainElement(t) PROVE Typed'
  <2>1. call[t] \in Clicking /\ call[t].index \in Indexes
    BY <1>10, CallKnown DEF RetainElement, Clicking
  <2>2. CachedAt(t) \in Completed /\ CachedAt(t) \in Walks /\ call[t].index < found[CachedAt(t)]
    BY <1>10, <2>1 DEF RetainElement, IsCached, CachedAt, Clicking, Walks
  <2>3. PICK c : c = [call[t] EXCEPT !.pc = "holding", !.held = CachedAt(t)]
    OBVIOUS
  <2>4. /\ c \in Clicking /\ c.pc = "holding"
        /\ c.held = CachedAt(t) /\ c.index = call[t].index
    BY <2>1, <2>2, <2>3 DEF Clicking
  <2>5. call' = [call EXCEPT ![t] = c]
    BY <1>10, <2>3 DEF RetainElement
  <2>6. refs' \in [Walks -> [Indexes -> Int]]
    BY <1>10, <2>1, <2>2 DEF RetainElement
  <2>7. /\ call' \in [Callers -> {Idle} \cup Walking \cup Walked \cup Clicking]
        /\ \A x \in Callers : call'[x].pc \in Shown => call'[x].walk \in Completed
        /\ \A x \in Callers : call'[x].pc = "holding" =>
             call'[x].held \in Completed /\ call'[x].index < found[call'[x].held]
    BY <2>2, <2>4, <2>5
  <2> QED BY <1>10, <2>6, <2>7 DEF RetainElement
<1>11. ASSUME NEW t \in Callers, InvokeAndRelease(t) PROVE Typed'
  <2>1. call[t] \in Clicking /\ call[t].index \in Indexes /\ call[t].held \in Walks
    BY <1>11, CallKnown DEF InvokeAndRelease, Clicking, Walks
  <2>2. call' = [call EXCEPT ![t] = Idle] /\ Idle.pc = "idle"
    BY <1>11 DEF InvokeAndRelease, Idle
  <2>3. refs' \in [Walks -> [Indexes -> Int]]
    BY <1>11, <2>1 DEF InvokeAndRelease
  <2> QED BY <1>11, <2>2, <2>3 DEF InvokeAndRelease
<1>12. ASSUME NEW t \in Callers, ExpandUnavailable(t) PROVE Typed'
  <2>1. call[t] \in Clicking /\ call[t].index \in Indexes /\ call[t].held \in Walks
    BY <1>12, CallKnown DEF ExpandUnavailable, Clicking, Walks
  <2>2. call' = [call EXCEPT ![t] = Idle] /\ Idle.pc = "idle"
    BY <1>12 DEF ExpandUnavailable, Idle
  <2>3. refs' \in [Walks -> [Indexes -> Int]]
    BY <1>12, <2>1 DEF ExpandUnavailable
  <2>4. overdrawn' \in [Walks -> [Indexes -> Nat]]
    BY <1>12, <2>1 DEF ExpandUnavailable
  <2> QED BY <1>12, <2>2, <2>3, <2>4 DEF ExpandUnavailable
<1>13. ASSUME NEW r \in Runtimes, BeginShutdown(r) \/ FinishShutdown(r) PROVE Typed'
  <2>1. LaneFit({})
    BY FS_EmptySet DEF LaneFit
  <2> QED BY <1>13, <2>1 DEF BeginShutdown, FinishShutdown
<1> HIDE DEF Typed, Completed, Shown
<1> QED BY <1>1, <1>2, <1>3, <1>4, <1>5, <1>6, <1>7, <1>8, <1>9, <1>10, <1>11, <1>12,
           <1>13 DEF Next

\* A stuttering step keeps them.
LEMMA StutterTyped ==
  ASSUME Typed, UNCHANGED vars
  PROVE  Typed'
BY DEF Typed, Completed, vars

\* Every reachable state is typed.
THEOREM TypedHolds == Spec => []Typed
<1>1. Typed /\ [Next]_vars => Typed'
  BY StepTyped, StutterTyped
<1> QED BY InitTyped, <1>1, PTL DEF Spec

-----------------------------------------------------------------------------
(* References.  Holders counts the calls and the caches that can still     *)
(* dereference an element; each of them has one of its references, or an   *)
(* unavailable expansion has taken that.                                   *)

HoldsCall(t, n, i) ==
  \/ call[t].pc = "walked" /\ call[t].walk = n
  \/ call[t].pc = "holding" /\ call[t].held = n /\ call[t].index = i
HoldingCalls(n, i) == {t \in Callers : HoldsCall(t, n, i)}
HoldingCaches(n) == {rw \in Runtimes \X Windows : caches[rw[1]][rw[2]] = n}

Accounted(n, i) ==
  n \in Completed /\ i < found[n] =>
    refs[n][i] + overdrawn[n][i]
      >= Cardinality(HoldingCalls(n, i)) + Cardinality(HoldingCaches(n))

RefsFit == \A n \in Walks, i \in Indexes : Accounted(n, i)

\* Completed walks are within the bound.
LEMMA CompletedAreWalks ==
  ASSUME Typed
  PROVE  Completed \subseteq Walks
<1>1. Len(found) \in Nat /\ Len(found) <= MaxWalks
  BY DEF Typed
<1> QED BY <1>1, TokenConstants DEF Completed, Walks

\* Counting holders makes sense: they are among finitely many.
LEMMA HoldersFinite ==
  ASSUME NEW n, NEW i
  PROVE  /\ IsFiniteSet(HoldingCalls(n, i)) /\ Cardinality(HoldingCalls(n, i)) \in Nat
         /\ IsFiniteSet(HoldingCaches(n)) /\ Cardinality(HoldingCaches(n)) \in Nat
<1>1. IsFiniteSet(Runtimes \X Windows) /\ IsFiniteSet(Callers)
  BY TokenConstants, FS_Product
<1>2. HoldingCalls(n, i) \subseteq Callers /\ HoldingCaches(n) \subseteq Runtimes \X Windows
  BY DEF HoldingCalls, HoldingCaches
<1>3. IsFiniteSet(HoldingCalls(n, i)) /\ IsFiniteSet(HoldingCaches(n))
  BY <1>1, <1>2, FS_Subset
<1> QED BY <1>3, FS_CardinalityType

\* The same after a step.
LEMMA HoldersFinitePrimed ==
  ASSUME NEW n, NEW i
  PROVE  /\ IsFiniteSet(HoldingCalls(n, i)') /\ Cardinality(HoldingCalls(n, i)') \in Nat
         /\ IsFiniteSet(HoldingCaches(n)') /\ Cardinality(HoldingCaches(n)') \in Nat
<1>1. IsFiniteSet(Runtimes \X Windows) /\ IsFiniteSet(Callers)
  BY TokenConstants, FS_Product
<1>2. HoldingCalls(n, i)' \subseteq Callers /\ HoldingCaches(n)' \subseteq Runtimes \X Windows
  BY DEF HoldingCalls, HoldingCaches
<1>3. IsFiniteSet(HoldingCalls(n, i)') /\ IsFiniteSet(HoldingCaches(n)')
  BY <1>1, <1>2, FS_Subset
<1> QED BY <1>3, FS_CardinalityType

\* A call that does not come to hold anything leaves the counts fitting.
LEMMA RefsQuiet ==
  ASSUME Typed, RefsFit, NEW t \in Callers, NEW c, call' = [call EXCEPT ![t] = c],
         c.pc \notin {"walked", "holding"}, UNCHANGED <<caches, found, refs, overdrawn>>
  PROVE  RefsFit'
<1>1. \A n, i : \A u \in Callers : HoldsCall(u, n, i)' => HoldsCall(u, n, i)
  BY DEF HoldsCall, Typed
<1>2. \A n, i : HoldingCalls(n, i)' \subseteq HoldingCalls(n, i) /\ HoldingCaches(n)' = HoldingCaches(n)
  BY <1>1 DEF HoldingCalls, HoldingCaches
<1>3. \A n, i : Cardinality(HoldingCalls(n, i)') <= Cardinality(HoldingCalls(n, i))
  BY <1>2, HoldersFinite, FS_Subset
<1> SUFFICES ASSUME NEW n \in Walks, NEW i \in Indexes
             PROVE  Accounted(n, i)'
  BY DEF RefsFit
<1>4. refs[n][i] \in Int /\ overdrawn[n][i] \in Nat /\ Accounted(n, i)
  BY DEF Typed, RefsFit
<1>5. Completed' = Completed
  BY DEF Completed
<1> QED BY <1>2, <1>3, <1>4, <1>5, HoldersFinite, HoldersFinitePrimed DEF Accounted

\* A finished walk holds each element it found, once.
LEMMA RefsWalkEnds ==
  ASSUME Typed, RefsFit, NEW t \in Callers, NEW k \in 0..MaxCount, WalkEnds(t, k)
  PROVE  RefsFit'
<1>0. PICK walk : walk = Len(found) + 1
  OBVIOUS
<1>1. /\ walk \in Walks /\ walk \notin Completed /\ Completed' = Completed \cup {walk}
      /\ found'[walk] = k /\ \A n \in Completed : found'[n] = found[n]
  BY <1>0 DEF WalkEnds, Typed, Completed
<1>2. call[t].pc = "walking" /\ call'[t].pc = "walked" /\ call'[t].walk = walk
      /\ \A u \in Callers : u # t => call'[u] = call[u]
  BY <1>0 DEF WalkEnds, Typed
<1>3. /\ \A i \in Indexes : refs'[walk][i] = IF i < k THEN 1 ELSE 0
      /\ \A n \in Walks : n # walk => refs'[n] = refs[n]
      /\ overdrawn' = overdrawn /\ \A i \in Indexes : overdrawn[walk][i] \in Nat
  BY <1>0, <1>1 DEF WalkEnds, Typed
<1>4. \A n, i : HoldingCaches(n)' = HoldingCaches(n)
  BY DEF HoldingCaches, WalkEnds
<1>5. \A n, i : n # walk => HoldingCalls(n, i)' = HoldingCalls(n, i)
  BY <1>2 DEF HoldingCalls, HoldsCall
<1>6. \A i : HoldingCaches(walk) = {} /\ HoldingCalls(walk, i)' = {t}
  <2>1. \A rw \in Runtimes \X Windows : caches[rw[1]][rw[2]] # walk
    BY <1>1 DEF Typed, NoWalk, Walks
  <2>2. \A u \in Callers : /\ call[u].pc = "walked" => call[u].walk # walk
                           /\ call[u].pc = "holding" => call[u].held # walk
    BY <1>1 DEF Typed, Shown
  <2>3. \A i : \A u \in Callers : HoldsCall(u, walk, i)' <=> u = t
    BY <1>2, <2>2 DEF HoldsCall
  <2> QED BY <2>1, <2>3 DEF HoldingCaches, HoldingCalls
<1>7. Cardinality({t}) = 1 /\ Cardinality({}) = 0
  BY FS_Singleton, FS_EmptySet
<1> SUFFICES ASSUME NEW n \in Walks, NEW i \in Indexes
             PROVE  Accounted(n, i)'
  BY DEF RefsFit
<1>8. CASE n = walk
  <2>1. HoldingCalls(n, i)' = {t} /\ HoldingCaches(n)' = {}
    BY <1>4, <1>6, <1>8
  <2> QED BY <1>1, <1>3, <1>7, <1>8, <2>1 DEF Accounted
<1>9. CASE n # walk
  BY <1>1, <1>3, <1>4, <1>5, <1>9 DEF RefsFit, Accounted
<1> QED BY <1>8, <1>9

\* The cache takes over the walk's references and releases those of the
\* snapshot it replaces.
LEMMA RefsUpdateCache ==
  ASSUME Typed, RefsFit, NEW t \in Callers, UpdateCache(t)
  PROVE  RefsFit'
<1>1. PICK r \in Runtimes, w \in Windows, walk \in Completed, old \in {NoWalk} \cup Completed :
        /\ r = call[t].runtime /\ w = call[t].window /\ walk = call[t].walk
        /\ old = caches[r][w]
  BY CallKnown DEF UpdateCache, Typed, Shown, Walked
<1>2. /\ call[t].pc = "walked" /\ call'[t].pc = "cached" /\ found' = found
      /\ \A u \in Callers : u # t => call'[u] = call[u]
  <2>1. call[t] \in Walked
    BY CallKnown DEF UpdateCache, Shown
  <2>2. [call[t] EXCEPT !.pc = "cached"].pc = "cached"
    BY <2>1 DEF Walked
  <2> QED BY <2>2 DEF UpdateCache, Typed
<1>3. \A n \in Walks, i \in Indexes :
        refs'[n][i] = IF n = old /\ i < found[old] THEN refs[n][i] - 1 ELSE refs[n][i]
  BY <1>1 DEF UpdateCache
<1>4. \A rw \in Runtimes \X Windows : caches'[rw[1]][rw[2]] =
        IF rw = <<r, w>> THEN walk ELSE caches[rw[1]][rw[2]]
  BY <1>1 DEF UpdateCache, Typed
<1>5. \A n, i : n # walk => HoldingCalls(n, i)' = HoldingCalls(n, i)
  BY <1>1, <1>2 DEF HoldingCalls, HoldsCall
<1>6. \A i : HoldingCalls(walk, i)' = HoldingCalls(walk, i) \ {t} /\ t \in HoldingCalls(walk, i)
  BY <1>1, <1>2 DEF HoldingCalls, HoldsCall
<1>7. <<r, w>> \in Runtimes \X Windows /\ <<r, w>>[1] = r /\ <<r, w>>[2] = w
  OBVIOUS
<1>8. \A n : n # walk /\ n # old => HoldingCaches(n)' = HoldingCaches(n)
  BY <1>1, <1>4, <1>7 DEF HoldingCaches
<1>9. old # walk => /\ HoldingCaches(old)' = HoldingCaches(old) \ {<<r, w>>}
                    /\ <<r, w>> \in HoldingCaches(old)
                    /\ HoldingCaches(walk)' = HoldingCaches(walk) \cup {<<r, w>>}
                    /\ <<r, w>> \notin HoldingCaches(walk)
  BY <1>1, <1>4, <1>7 DEF HoldingCaches
<1>10. old = walk => HoldingCaches(walk)' = HoldingCaches(walk)
  BY <1>1, <1>4, <1>7 DEF HoldingCaches
<1>11. \A i : Cardinality(HoldingCalls(walk, i)') = Cardinality(HoldingCalls(walk, i)) - 1
  BY <1>6, HoldersFinite, FS_RemoveElement
<1>12. old # walk => /\ Cardinality(HoldingCaches(old)') = Cardinality(HoldingCaches(old)) - 1
                     /\ Cardinality(HoldingCaches(walk)') = Cardinality(HoldingCaches(walk)) + 1
  <2>1. ASSUME old # walk
        PROVE  Cardinality(HoldingCaches(old)') = Cardinality(HoldingCaches(old)) - 1
    BY <1>9, <2>1, HoldersFinite, FS_RemoveElement
  <2>2. ASSUME old # walk
        PROVE  Cardinality(HoldingCaches(walk)') = Cardinality(HoldingCaches(walk)) + 1
    BY <1>9, <2>2, HoldersFinite, FS_AddElement
  <2> QED BY <2>1, <2>2
<1> SUFFICES ASSUME NEW n \in Walks, NEW i \in Indexes
             PROVE  Accounted(n, i)'
  BY DEF RefsFit
<1> DEFINE calls == Cardinality(HoldingCalls(n, i))
           kept == Cardinality(HoldingCaches(n))
<1>13. /\ refs[n][i] \in Int /\ calls \in Nat /\ kept \in Nat
       /\ overdrawn[n][i] \in Nat /\ overdrawn' = overdrawn
       /\ Completed' = Completed /\ found'[n] = found[n]
       /\ n \in Completed /\ i < found[n] => refs[n][i] + overdrawn[n][i] >= calls + kept
  BY <1>2, HoldersFinite DEF UpdateCache, Typed, Completed, RefsFit, Accounted
<1>14. CASE n = walk /\ n # old
  BY <1>3, <1>11, <1>12, <1>13, <1>14 DEF Accounted
<1>15. CASE n = walk /\ n = old
  BY <1>3, <1>10, <1>11, <1>13, <1>15 DEF Accounted
<1>16. CASE n = old /\ n # walk
  <2>1. old \in Completed
    BY <1>1, <1>16 DEF Typed, Walks, NoWalk
  <2>2. HoldingCalls(n, i)' = HoldingCalls(n, i)
    BY <1>5, <1>16
  <2> QED BY <1>3, <1>12, <1>13, <1>16, <2>1, <2>2 DEF Accounted
<1>17. CASE n # old /\ n # walk
  <2>1. HoldingCalls(n, i)' = HoldingCalls(n, i) /\ HoldingCaches(n)' = HoldingCaches(n)
    BY <1>5, <1>8, <1>17
  <2> QED BY <1>3, <1>13, <1>17, <2>1 DEF Accounted
<1> QED BY <1>14, <1>15, <1>16, <1>17

\* A click that takes hold of an element adds the reference it holds.
LEMMA RefsRetain ==
  ASSUME Typed, RefsFit, NEW t \in Callers, RetainElement(t)
  PROVE  RefsFit'
<1>1. PICK m \in Completed, k \in Indexes : m = CachedAt(t) /\ k = call[t].index /\ m \in Walks
  <2>1. call[t] \in Clicking
    BY CallKnown DEF RetainElement
  <2> QED BY <2>1 DEF RetainElement, IsCached, CachedAt, Clicking, Typed, Walks, Completed
<1>2. /\ call[t].pc = "aimed" /\ call'[t].pc = "holding" /\ call'[t].held = m
      /\ call'[t].index = k /\ \A u \in Callers : u # t => call'[u] = call[u]
  <2>1. call[t] \in Clicking
    BY CallKnown DEF RetainElement
  <2>2. PICK c : c = [call[t] EXCEPT !.pc = "holding", !.held = CachedAt(t)]
    OBVIOUS
  <2>3. c.pc = "holding" /\ c.held = m /\ c.index = k
    BY <1>1, <2>1, <2>2 DEF Clicking
  <2>4. call' = [call EXCEPT ![t] = c]
    BY <2>2 DEF RetainElement
  <2> QED BY <2>3, <2>4 DEF RetainElement, Typed
<1>3. \A n \in Walks, i \in Indexes :
        refs'[n][i] = IF n = m /\ i = k THEN refs[n][i] + 1 ELSE refs[n][i]
  BY <1>1 DEF RetainElement, Typed
<1>4. \A n, i : /\ HoldingCaches(n)' = HoldingCaches(n)
                /\ ~(n = m /\ i = k) => HoldingCalls(n, i)' = HoldingCalls(n, i)
  BY <1>2 DEF RetainElement, HoldingCaches, HoldingCalls, HoldsCall
<1>5. HoldingCalls(m, k)' = HoldingCalls(m, k) \cup {t} /\ t \notin HoldingCalls(m, k)
  BY <1>2 DEF HoldingCalls, HoldsCall
<1>6. Cardinality(HoldingCalls(m, k)') = Cardinality(HoldingCalls(m, k)) + 1
  BY <1>5, HoldersFinite, FS_AddElement
<1> SUFFICES ASSUME NEW n \in Walks, NEW i \in Indexes
             PROVE  Accounted(n, i)'
  BY DEF RefsFit
<1>7. /\ refs[n][i] \in Int /\ Cardinality(HoldingCalls(n, i)) \in Nat
      /\ Cardinality(HoldingCaches(n)) \in Nat
      /\ overdrawn[n][i] \in Nat /\ overdrawn' = overdrawn
      /\ Completed' = Completed /\ found'[n] = found[n] /\ Accounted(n, i)
  BY HoldersFinite DEF RetainElement, Typed, Completed, RefsFit
<1>8. CASE n = m /\ i = k
  BY <1>3, <1>4, <1>6, <1>7, <1>8 DEF Accounted
<1>9. CASE ~(n = m /\ i = k)
  BY <1>3, <1>4, <1>7, <1>9 DEF Accounted
<1> QED BY <1>8, <1>9

\* A click gives back the reference it holds, or two where the expansion is
\* unavailable, and then the second counts as overdrawn.
LEMMA RefsRelease ==
  ASSUME Typed, RefsFit, NEW t \in Callers, InvokeAndRelease(t) \/ ExpandUnavailable(t)
  PROVE  RefsFit'
<1>1. PICK m \in Completed, k \in Indexes :
        m = call[t].held /\ k = call[t].index /\ m \in Walks /\ k < found[m]
  <2>1. call[t].pc = "holding" /\ call[t] \in Clicking
    BY CallKnown DEF InvokeAndRelease, ExpandUnavailable
  <2>2. call[t].index \in Indexes
    BY <2>1 DEF Clicking
  <2>3. call[t].held \in Completed /\ call[t].index < found[call[t].held]
    BY <2>1 DEF Typed
  <2>4. call[t].held \in Walks
    BY <2>3, CompletedAreWalks
  <2> QED BY <2>2, <2>3, <2>4
<1>2. /\ call[t].pc = "holding" /\ call'[t].pc = "idle" /\ UNCHANGED <<caches, found>>
      /\ \A u \in Callers : u # t => call'[u] = call[u]
  BY DEF InvokeAndRelease, ExpandUnavailable, Typed, Idle
<1>3. \A n \in Walks, i \in Indexes :
        /\ overdrawn[n][i] \in Nat /\ overdrawn'[n][i] \in Nat
        /\ ~(n = m /\ i = k) => /\ refs'[n][i] = refs[n][i]
                                 /\ overdrawn'[n][i] = overdrawn[n][i]
        /\ n = m /\ i = k => refs'[n][i] + overdrawn'[n][i]
                               = refs[n][i] + overdrawn[n][i] - 1
  <2>1. CASE InvokeAndRelease(t)
    BY <1>1, <2>1 DEF InvokeAndRelease, Typed
  <2>2. CASE ExpandUnavailable(t)
    <3>1. /\ refs' = [refs EXCEPT ![m][k] = @ - 2]
          /\ overdrawn' = [overdrawn EXCEPT ![m][k] = @ + 1]
      BY <1>1, <2>2 DEF ExpandUnavailable
    <3>2. refs \in [Walks -> [Indexes -> Int]] /\ overdrawn \in [Walks -> [Indexes -> Nat]]
      BY DEF Typed
    <3>3. /\ refs'[m][k] = refs[m][k] - 2 /\ overdrawn'[m][k] = overdrawn[m][k] + 1
          /\ refs[m][k] \in Int /\ overdrawn[m][k] \in Nat
      BY <1>1, <3>1, <3>2
    <3>4. \A n \in Walks, i \in Indexes : ~(n = m /\ i = k) =>
            refs'[n][i] = refs[n][i] /\ overdrawn'[n][i] = overdrawn[n][i]
      BY <1>1, <3>1, <3>2
    <3> TAKE n \in Walks, i \in Indexes
    <3>5. overdrawn[n][i] \in Nat
      BY <3>2
    <3>6. CASE n = m /\ i = k
      BY <3>3, <3>6
    <3>7. CASE ~(n = m /\ i = k)
      BY <3>4, <3>5, <3>7
    <3> QED BY <3>6, <3>7
  <2> QED BY <2>1, <2>2
<1>4. \A n, i : /\ HoldingCaches(n)' = HoldingCaches(n)
                /\ ~(n = m /\ i = k) => HoldingCalls(n, i)' = HoldingCalls(n, i)
  BY <1>1, <1>2 DEF HoldingCaches, HoldingCalls, HoldsCall
<1>5. HoldingCalls(m, k)' = HoldingCalls(m, k) \ {t} /\ t \in HoldingCalls(m, k)
  BY <1>1, <1>2 DEF HoldingCalls, HoldsCall
<1>6. Cardinality(HoldingCalls(m, k)') = Cardinality(HoldingCalls(m, k)) - 1
  BY <1>5, HoldersFinite, FS_RemoveElement
<1> SUFFICES ASSUME NEW n \in Walks, NEW i \in Indexes
             PROVE  Accounted(n, i)'
  BY DEF RefsFit
<1>7. /\ refs[n][i] \in Int /\ Cardinality(HoldingCalls(n, i)) \in Nat
      /\ Cardinality(HoldingCaches(n)) \in Nat
      /\ Completed' = Completed /\ found'[n] = found[n] /\ Accounted(n, i)
  BY <1>2, HoldersFinite DEF Typed, Completed, RefsFit
<1>8. CASE n = m /\ i = k
  BY <1>1, <1>3, <1>4, <1>6, <1>7, <1>8 DEF Accounted
<1>9. CASE ~(n = m /\ i = k)
  BY <1>3, <1>4, <1>7, <1>9 DEF Accounted
<1> QED BY <1>8, <1>9

\* Every action keeps the counts fitting.
LEMMA RefsStep ==
  ASSUME Typed, RefsFit, Next
  PROVE  RefsFit'
<1>1. ASSUME NEW t \in Callers, NEW r \in Runtimes, NEW w \in Windows, NEW keep \in BOOLEAN,
             GetWindowState(t, r, w, keep)
      PROVE  RefsFit'
  <2>1. PICK c : c = [pc |-> "walking", runtime |-> r, window |-> w, keep |-> keep]
    OBVIOUS
  <2> QED BY <1>1, <2>1, RefsQuiet DEF GetWindowState
<1>2. ASSUME NEW t \in Callers, WalkFails(t) \/ ObservationOnly(t) \/ PostAtPoint(t) \/ Reply(t)
      PROVE  RefsFit'
  <2>1. call' = [call EXCEPT ![t] = Idle] /\ Idle.pc = "idle"
        /\ UNCHANGED <<caches, found, refs, overdrawn>>
    BY <1>2 DEF WalkFails, ObservationOnly, PostAtPoint, Reply, Idle
  <2> QED BY <2>1, RefsQuiet
<1>3. ASSUME NEW t \in Callers, MintSnapshot(t) \/ RegisterSnapshot(t) PROVE RefsFit'
  <2>1. call[t] \in Walked
    BY <1>3, CallKnown DEF MintSnapshot, RegisterSnapshot, Shown
  <2>2. PICK c : /\ c = [call[t] EXCEPT !.pc = "minted", !.id = NextId]
                    \/ c = [call[t] EXCEPT !.pc = "registered"]
                 /\ call' = [call EXCEPT ![t] = c]
    BY <1>3 DEF MintSnapshot, RegisterSnapshot
  <2>3. c.pc \in {"minted", "registered"}
    BY <2>1, <2>2 DEF Walked
  <2> QED BY <1>3, <2>2, <2>3, RefsQuiet DEF MintSnapshot, RegisterSnapshot
<1>4. ASSUME NEW t \in Callers, NEW tok \in issued, NEW r \in Runtimes, NEW i \in Indexes,
             Click(t, tok, r, i)
      PROVE  RefsFit'
  <2>1. PICK c : c.pc = "resolved" /\ call' = [call EXCEPT ![t] = c]
    BY <1>4 DEF Click
  <2> QED BY <1>4, <2>1, RefsQuiet DEF Click
<1>5. ASSUME NEW t \in Callers, Aim(t) PROVE RefsFit'
  <2>1. call[t] \in Clicking
    BY <1>5, CallKnown DEF Aim
  <2>2. PICK c : /\ c = IF IsCached(t) THEN [call[t] EXCEPT !.pc = "aimed", !.seen = CachedAt(t)]
                        ELSE Idle
                 /\ call' = [call EXCEPT ![t] = c]
    BY <1>5 DEF Aim
  <2>3. c.pc \in {"aimed", "idle"}
    BY <2>1, <2>2 DEF Clicking, Idle
  <2> QED BY <1>5, <2>2, <2>3, RefsQuiet DEF Aim
<1>6. ASSUME UNCHANGED <<caches, found, refs, overdrawn, call>> PROVE RefsFit'
  BY <1>6 DEF RefsFit, Accounted, Completed, HoldingCalls, HoldingCaches, HoldsCall
<1>7. ASSUME NEW r \in Runtimes, BeginShutdown(r) \/ FinishShutdown(r) PROVE RefsFit'
  BY <1>6, <1>7 DEF BeginShutdown, FinishShutdown
<1> QED BY <1>1, <1>2, <1>3, <1>4, <1>5, <1>7, RefsWalkEnds, RefsUpdateCache, RefsRetain,
           RefsRelease DEF Next

\* Initially no walk is completed.
LEMMA InitRefs == Init => RefsFit
BY DEF Init, Completed, RefsFit, Accounted

\* The counts fit in every reachable state.
THEOREM RefsFitHolds == Spec => [](Typed /\ RefsFit)
<1>1. Typed /\ RefsFit /\ UNCHANGED vars => RefsFit'
  BY DEF RefsFit, Accounted, Completed, HoldingCalls, HoldingCaches, HoldsCall, vars
<1>2. Typed /\ RefsFit /\ [Next]_vars => RefsFit'
  BY <1>1, RefsStep
<1> QED BY InitRefs, <1>2, TypedHolds, PTL DEF Spec

(* An element loses references to unavailable expansions only, one to      *)
(* each: beyond those, the cached snapshot, the walk not yet cached and    *)
(* every click that holds an element have a reference of their own on it,  *)
(* however calls interleave (get_element_retained adds it under the lock   *)
(* that update releases the old snapshot under).                           *)
THEOREM ExpandsAloneOverdraw == Spec => []OnlyExpandsOverdraw
<1>1. Typed /\ RefsFit => OnlyExpandsOverdraw
  <2> SUFFICES ASSUME Typed, RefsFit, NEW n \in Completed, NEW i \in Indexes, i < found[n]
               PROVE  refs[n][i] + overdrawn[n][i] >= Holders(n, i)
    BY DEF OnlyExpandsOverdraw
  <2>1. n \in Walks
    BY CompletedAreWalks
  <2>2. Holders(n, i) = Cardinality(HoldingCalls(n, i)) + Cardinality(HoldingCaches(n))
    BY DEF Holders, HoldingCalls, HoldingCaches, HoldsCall
  <2> QED BY <2>1, <2>2 DEF RefsFit, Accounted
<1> QED BY <1>1, RefsFitHolds, PTL

(* What RetainedElement promises (cache.rs 21-26, 40), as far as the code  *)
(* keeps it: a click that holds an element on which no expansion was ever  *)
(* unavailable finds it alive, whoever replaces its snapshot, with any     *)
(* number of clients and walks.                                            *)
UnexpandedAreAlive ==
  \A t \in Callers :
    call[t].pc = "holding" /\ overdrawn[call[t].held][call[t].index] = 0
      => refs[call[t].held][call[t].index] > 0

THEOREM UnexpandedStayAlive == Spec => []UnexpandedAreAlive
<1>1. ASSUME Typed, RefsFit PROVE UnexpandedAreAlive
  <2> SUFFICES ASSUME NEW t \in Callers, call[t].pc = "holding",
                      overdrawn[call[t].held][call[t].index] = 0
               PROVE  refs[call[t].held][call[t].index] > 0
    BY DEF UnexpandedAreAlive
  <2>1. PICK n \in Walks, i \in Indexes :
          n = call[t].held /\ i = call[t].index /\ n \in Completed /\ i < found[n]
    <3>1. call[t] \in Clicking
      BY <1>1, CallKnown
    <3>2. call[t].held \in Completed /\ call[t].index < found[call[t].held]
      BY <1>1 DEF Typed
    <3>3. call[t].held \in Walks /\ call[t].index \in Indexes
      BY <1>1, <3>1, <3>2, CompletedAreWalks DEF Clicking
    <3> QED BY <3>2, <3>3
  <2>2. t \in HoldingCalls(n, i)
    BY <1>1, <2>1 DEF HoldingCalls, HoldsCall
  <2>3. Cardinality(HoldingCalls(n, i)) > 0
    BY <2>2, HoldersFinite, FS_EmptySet
  <2>4. refs[n][i] \in Int /\ overdrawn[n][i] = 0 /\ Accounted(n, i)
    BY <1>1, <2>1 DEF Typed, RefsFit
  <2>5. /\ Cardinality(HoldingCalls(n, i)) \in Nat /\ Cardinality(HoldingCaches(n)) \in Nat
        /\ refs[n][i] + overdrawn[n][i]
             >= Cardinality(HoldingCalls(n, i)) + Cardinality(HoldingCaches(n))
    BY <2>1, <2>4, HoldersFinite DEF Accounted
  <2>6. refs[n][i] > 0
    BY <2>3, <2>4, <2>5
  <2> QED BY <2>1, <2>6
<1> QED BY <1>1, RefsFitHolds, PTL

(* Every variable has its type: in particular a lane keeps at most         *)
(* LRU_CAP_PER_PID snapshots and one of each window, whichever it evicts.  *)
(* A count of references may be any integer: see ExpandUnavailable.        *)
THEOREM TokensTypeCorrect == Spec => []TokensTypeOK
<1>1. Typed => TokensTypeOK
  BY DEF Typed, TokensTypeOK, LaneFit
<1> QED BY <1>1, TypedHolds, PTL

-----------------------------------------------------------------------------
(* Shutdown.                                                               *)

\* No action lets a runtime that is down have a lane or a call.
LEMMA ShutdownStep ==
  ASSUME Typed, ShutdownForgets, Next
  PROVE  ShutdownForgets'
<1> USE DEF ShutdownForgets, Busy
<1>1. ASSUME NEW t \in Callers, NEW c, call' = [call EXCEPT ![t] = c], UNCHANGED phase,
             \A r \in Runtimes : phase[r] = "down" => lanes'[r] = lanes[r],
             \A r \in Runtimes : phase[r] = "down" => c = Idle \/ c.runtime # r
      PROVE  ShutdownForgets'
  BY <1>1 DEF Typed
<1>2. ASSUME NEW t \in Callers, call[t].pc # "idle" PROVE phase[call[t].runtime] # "down"
  <2>1. call[t] # Idle /\ call[t] \in Walking \cup Walked \cup Clicking
    BY <1>2, CallKnown DEF Typed
  <2>2. call[t].runtime \in Runtimes
    BY <2>1 DEF Walking, Walked, Clicking
  <2> QED BY <2>1, <2>2
<1>3. ASSUME NEW t \in Callers, NEW r \in Runtimes, NEW w \in Windows, NEW keep \in BOOLEAN,
             GetWindowState(t, r, w, keep)
      PROVE  ShutdownForgets'
  <2>1. PICK c : c = [pc |-> "walking", runtime |-> r, window |-> w, keep |-> keep]
    OBVIOUS
  <2>2. call' = [call EXCEPT ![t] = c] /\ c.runtime = r /\ UNCHANGED <<phase, lanes>>
        /\ phase[r] = "running"
    BY <1>3, <2>1 DEF GetWindowState
  <2> QED BY <1>1, <2>2
<1>4. ASSUME NEW t \in Callers, WalkFails(t) \/ ObservationOnly(t) \/ PostAtPoint(t) \/ Reply(t)
                                \/ InvokeAndRelease(t) \/ ExpandUnavailable(t)
      PROVE  ShutdownForgets'
  <2>1. call' = [call EXCEPT ![t] = Idle] /\ UNCHANGED <<phase, lanes>>
    BY <1>4 DEF WalkFails, ObservationOnly, PostAtPoint, Reply, InvokeAndRelease,
                ExpandUnavailable
  <2> QED BY <1>1, <2>1
<1>5. ASSUME NEW t \in Callers, NEW n \in 0..MaxCount, WalkEnds(t, n) PROVE ShutdownForgets'
  <2>1. PICK c : c = [pc |-> "walked", runtime |-> call[t].runtime, window |-> call[t].window,
                      keep |-> call[t].keep, walk |-> Len(found) + 1, id |-> 0]
    OBVIOUS
  <2>2. call' = [call EXCEPT ![t] = c] /\ c.runtime = call[t].runtime
        /\ UNCHANGED <<phase, lanes>> /\ call[t].pc # "idle"
    BY <1>5, <2>1 DEF WalkEnds
  <2> QED BY <1>1, <1>2, <2>2
<1>6. ASSUME NEW t \in Callers, UpdateCache(t) \/ MintSnapshot(t) PROVE ShutdownForgets'
  <2>1. call[t] \in Walked /\ call[t].pc # "idle"
    BY <1>6, CallKnown DEF UpdateCache, MintSnapshot, Shown
  <2> DEFINE cached == [call[t] EXCEPT !.pc = "cached"]
             minted == [call[t] EXCEPT !.pc = "minted", !.id = NextId]
  <2>2. PICK c \in {cached, minted} : call' = [call EXCEPT ![t] = c]
    <3>1. call' = [call EXCEPT ![t] = cached] \/ call' = [call EXCEPT ![t] = minted]
      <4>1. ASSUME UpdateCache(t) PROVE call' = [call EXCEPT ![t] = cached]
        BY <4>1 DEF UpdateCache
      <4>2. ASSUME MintSnapshot(t) PROVE call' = [call EXCEPT ![t] = minted]
        BY <4>2 DEF MintSnapshot, Typed
      <4> QED BY <1>6, <4>1, <4>2
    <3> HIDE DEF cached, minted
    <3> QED BY <3>1
  <2>3. c.runtime = call[t].runtime
    BY <2>1, <2>2 DEF Walked
  <2>4. UNCHANGED <<phase, lanes>>
    BY <1>6 DEF UpdateCache, MintSnapshot
  <2> QED BY <1>1, <1>2, <2>1, <2>2, <2>3, <2>4
<1>7. ASSUME NEW t \in Callers, RegisterSnapshot(t) PROVE ShutdownForgets'
  <2>1. call[t] \in Walked /\ call[t].pc # "idle"
    BY <1>7, CallKnown DEF RegisterSnapshot, Shown
  <2>2. PICK c : c = [call[t] EXCEPT !.pc = "registered"]
    OBVIOUS
  <2>3. c.runtime = call[t].runtime
    BY <2>1, <2>2 DEF Walked
  <2>4. call' = [call EXCEPT ![t] = c] /\ UNCHANGED phase
    BY <1>7, <2>2 DEF RegisterSnapshot
  <2>5. lanes' = [lanes EXCEPT ![call[t].runtime] = NewLane(t)]
    BY <1>7, RegisteredLane
  <2>6. \A r \in Runtimes : phase[r] = "down" => r # call[t].runtime
    BY <1>2, <2>1
  <2>7. \A r \in Runtimes : phase[r] = "down" => lanes'[r] = lanes[r]
    BY <2>5, <2>6 DEF Typed
  <2> QED BY <1>1, <2>3, <2>4, <2>6, <2>7
<1>8. ASSUME NEW t \in Callers, NEW tok \in issued, NEW r \in Runtimes, NEW i \in Indexes,
             Click(t, tok, r, i)
      PROVE  ShutdownForgets'
  <2>1. PICK c : c.runtime = r /\ call' = [call EXCEPT ![t] = c]
    BY <1>8 DEF Click
  <2>2. UNCHANGED <<phase, lanes>> /\ phase[r] = "running"
    BY <1>8 DEF Click
  <2> QED BY <1>1, <2>1, <2>2
<1>9. ASSUME NEW t \in Callers, Aim(t) \/ RetainElement(t) PROVE ShutdownForgets'
  <2>1. call[t] \in Clicking /\ call[t].pc # "idle"
    BY <1>9, CallKnown DEF Aim, RetainElement
  <2> DEFINE aimed == [call[t] EXCEPT !.pc = "aimed", !.seen = CachedAt(t)]
             holding == [call[t] EXCEPT !.pc = "holding", !.held = CachedAt(t)]
  <2>2. PICK c \in {aimed, holding, Idle} : call' = [call EXCEPT ![t] = c]
    <3>1. \/ call' = [call EXCEPT ![t] = aimed] \/ call' = [call EXCEPT ![t] = holding]
          \/ call' = [call EXCEPT ![t] = Idle]
      BY <1>9 DEF Aim, RetainElement
    <3> HIDE DEF aimed, holding
    <3> QED BY <3>1
  <2>3. c = Idle \/ c.runtime = call[t].runtime
    BY <2>1, <2>2 DEF Clicking
  <2>4. UNCHANGED <<phase, lanes>>
    BY <1>9 DEF Aim, RetainElement
  <2> QED BY <1>1, <1>2, <2>1, <2>2, <2>3, <2>4
<1>10. ASSUME NEW r \in Runtimes, BeginShutdown(r) \/ FinishShutdown(r) PROVE ShutdownForgets'
  BY <1>10 DEF BeginShutdown, FinishShutdown, Typed
<1> HIDE DEF ShutdownForgets, Busy
<1> QED BY <1>3, <1>4, <1>5, <1>6, <1>7, <1>8, <1>9, <1>10 DEF Next

(* Once a runtime is down, the registry holds nothing of it, and no call   *)
(* of it is left that could register or resolve a snapshot again: the      *)
(* write lock of shutdown really waits for what the flag let through.      *)
THEOREM ShutdownIsFinal == Spec => []ShutdownForgets
<1>1. Init => ShutdownForgets
  BY DEF Init, ShutdownForgets
<1>2. ShutdownForgets /\ UNCHANGED vars => ShutdownForgets'
  BY DEF ShutdownForgets, Busy, vars
<1> QED BY <1>1, <1>2, ShutdownStep, TypedHolds, PTL DEF Spec

-----------------------------------------------------------------------------
(* Ids.  An id is used once: until the counter wraps every id in use is    *)
(* below it, and one id means one walk of one runtime wherever it occurs.  *)

Minted(t) == call[t].pc \in {"minted", "registered"}

IdsBelowCounter ==
  counter # 0 =>
    /\ \A tok \in issued : tok.id < counter
    /\ \A r \in Runtimes : \A e \in lanes[r] : e.id < counter
    /\ \A t \in Callers : Minted(t) => call[t].id < counter

IdsUnique ==
  /\ \A tok \in issued, r \in Runtimes : \A e \in lanes[r] :
       e.id = tok.id => e.walk = tok.walk /\ r = tok.runtime
  /\ \A t \in Callers, r \in Runtimes : \A e \in lanes[r] :
       Minted(t) /\ e.id = call[t].id =>
         call[t].pc = "registered" /\ e.walk = call[t].walk /\ r = call[t].runtime
  /\ \A t \in Callers : \A tok \in issued : Minted(t) => tok.id # call[t].id
  /\ \A t, u \in Callers : Minted(t) /\ Minted(u) /\ call[t].id = call[u].id => t = u

IdsFit == IdsBelowCounter /\ IdsUnique

\* A call that does not come to have an id, and forgets entries at most.
LEMMA IdsQuiet ==
  ASSUME Typed, IdsFit, UNCHANGED <<counter, issued>>,
         \A t \in Callers : Minted(t)' => Minted(t) /\ call'[t] = call[t],
         \A r \in Runtimes : lanes'[r] \subseteq lanes[r]
  PROVE  IdsFit'
<1>1. \A r \in Runtimes : \A e \in lanes'[r] : e \in lanes[r]
  OBVIOUS
<1>2. IdsBelowCounter'
  BY <1>1 DEF IdsFit, IdsBelowCounter
<1>3. IdsUnique'
  BY <1>1 DEF IdsFit, IdsUnique
<1> QED BY <1>2, <1>3 DEF IdsFit

\* A minted id is the counter, above every id in use.
LEMMA IdsMint ==
  ASSUME Typed, IdsFit, NEW t \in Callers, MintSnapshot(t)
  PROVE  IdsFit'
<1>1. /\ counter \in Ids /\ counter # 0 /\ UNCHANGED <<issued, lanes>>
      /\ counter' = (counter + 1) % IdSpace
  BY DEF MintSnapshot, IdsLeft, Typed
<1>2. counter' # 0 => counter' = counter + 1
  BY <1>1, TokenConstants DEF Ids
<1>3. /\ call'[t].pc = "minted" /\ call'[t].id = counter /\ ~Minted(t)
      /\ \A u \in Callers : u # t => call'[u] = call[u]
  <2>1. call[t] \in Walked
    BY CallKnown DEF MintSnapshot, Shown
  <2>2. PICK c : c = [call[t] EXCEPT !.pc = "minted", !.id = NextId]
    OBVIOUS
  <2>3. c.pc = "minted" /\ c.id = counter
    BY <2>1, <2>2 DEF Walked, NextId
  <2>4. call' = [call EXCEPT ![t] = c]
    BY <2>2 DEF MintSnapshot
  <2> QED BY <2>3, <2>4 DEF MintSnapshot, Typed, Minted
<1>4. /\ \A tok \in issued : tok.id \in Nat /\ tok.id < counter
      /\ \A r \in Runtimes : \A e \in lanes[r] : e.id \in Nat /\ e.id < counter
      /\ \A u \in Callers : Minted(u) => call[u].id \in Nat /\ call[u].id < counter
  <2>1. \A tok \in issued : tok.id \in Nat
    BY DEF Typed, Token, Ids
  <2>2. \A r \in Runtimes : \A e \in lanes[r] : e.id \in Nat
    BY DEF Typed, Entry, Ids
  <2>3. \A u \in Callers : Minted(u) => call[u].id \in Nat
    <3>1. \A u \in Callers : Minted(u) => call[u] \in Walked
      BY CallKnown DEF Minted, Shown
    <3> QED BY <3>1 DEF Walked, Ids
  <2> QED BY <1>1, <2>1, <2>2, <2>3 DEF IdsFit, IdsBelowCounter
<1>5. \A u \in Callers : u # t => (Minted(u)' <=> Minted(u))
  BY <1>3 DEF Minted
<1>6. counter \in Nat
  BY <1>1 DEF Ids
<1>7. IdsBelowCounter'
  BY <1>1, <1>2, <1>3, <1>4, <1>5, <1>6 DEF IdsBelowCounter
<1>8. \A u \in Callers : u # t /\ Minted(u)' => call'[u].id # counter
  BY <1>3, <1>4, <1>5, <1>6
<1>9. \A u \in Callers, r \in Runtimes : \A e \in lanes'[r] :
        Minted(u)' /\ e.id = call'[u].id =>
          call'[u].pc = "registered" /\ e.walk = call'[u].walk /\ r = call'[u].runtime
  <2> SUFFICES ASSUME NEW u \in Callers, NEW r \in Runtimes, NEW e \in lanes[r],
                      Minted(u)', e.id = call'[u].id
               PROVE  call'[u].pc = "registered" /\ e.walk = call'[u].walk
                      /\ r = call'[u].runtime
    BY <1>1
  <2>1. u # t
    BY <1>3, <1>4, <1>6
  <2> QED BY <1>3, <1>5, <2>1 DEF IdsFit, IdsUnique
<1>10. \A u \in Callers : \A tok \in issued' : Minted(u)' => tok.id # call'[u].id
  <2> SUFFICES ASSUME NEW u \in Callers, NEW tok \in issued, Minted(u)'
               PROVE  tok.id # call'[u].id
    BY <1>1
  <2>1. CASE u = t
    BY <1>3, <1>4, <1>6, <2>1
  <2>2. CASE u # t
    BY <1>3, <1>5, <2>2 DEF IdsFit, IdsUnique
  <2> QED BY <2>1, <2>2
<1>11. \A x, u \in Callers : Minted(x)' /\ Minted(u)' /\ call'[x].id = call'[u].id => x = u
  <2> SUFFICES ASSUME NEW x \in Callers, NEW u \in Callers, Minted(x)', Minted(u)',
                      call'[x].id = call'[u].id
               PROVE  x = u
    OBVIOUS
  <2>1. CASE x = t \/ u = t
    BY <1>3, <1>8, <2>1
  <2>2. CASE x # t /\ u # t
    BY <1>3, <1>5, <2>2 DEF IdsFit, IdsUnique
  <2> QED BY <2>1, <2>2
<1>12. IdsUnique'
  BY <1>1, <1>9, <1>10, <1>11 DEF IdsFit, IdsUnique
<1> QED BY <1>7, <1>12 DEF IdsFit

\* The entry registered is of the call's own id.
LEMMA IdsRegister ==
  ASSUME Typed, IdsFit, NEW t \in Callers, RegisterSnapshot(t)
  PROVE  IdsFit'
<1>1. PICK r0 \in Runtimes, entry \in Entry :
        /\ r0 = call[t].runtime /\ entry = NewEntry(t)
        /\ lanes' = [lanes EXCEPT ![r0] = NewLane(t)]
        /\ NewLane(t) \subseteq lanes[r0] \cup {entry}
  BY RegisteredLane
<1>2. entry.id = call[t].id /\ entry.walk = call[t].walk
  BY <1>1 DEF NewEntry
<1>3. /\ call[t].pc = "minted" /\ call'[t].pc = "registered" /\ call'[t].id = call[t].id
      /\ call'[t].walk = call[t].walk /\ call'[t].runtime = r0
      /\ \A u \in Callers : u # t => call'[u] = call[u]
  <2>1. call[t] \in Walked
    BY CallKnown DEF RegisterSnapshot, Shown
  <2>2. PICK c : c = [call[t] EXCEPT !.pc = "registered"]
    OBVIOUS
  <2>3. c.pc = "registered" /\ c.id = call[t].id /\ c.walk = call[t].walk
        /\ c.runtime = call[t].runtime
    BY <2>1, <2>2 DEF Walked
  <2>4. call' = [call EXCEPT ![t] = c]
    BY <2>2 DEF RegisterSnapshot
  <2> QED BY <1>1, <2>3, <2>4 DEF RegisterSnapshot, Typed
<1>4. UNCHANGED <<counter, issued>>
  BY DEF RegisterSnapshot
<1>5. \A r \in Runtimes : \A e \in lanes'[r] : e \in lanes[r] \/ (r = r0 /\ e = entry)
  BY <1>1 DEF Typed
<1>6. \A u \in Callers : /\ Minted(u)' <=> Minted(u)
                         /\ Minted(u) => call'[u].id = call[u].id
                         /\ call'[u].walk = call[u].walk
                         /\ call'[u].runtime = call[u].runtime
  BY <1>1, <1>3 DEF Minted
<1>7. Minted(t)
  BY <1>3 DEF Minted
<1>8. IdsBelowCounter'
  BY <1>2, <1>4, <1>5, <1>6, <1>7 DEF IdsFit, IdsBelowCounter
<1>9. ASSUME NEW tok \in issued', NEW r \in Runtimes, NEW e \in lanes'[r], e.id = tok.id
      PROVE  e.walk = tok.walk /\ r = tok.runtime
  <2>1. entry.id # tok.id
    BY <1>2, <1>4, <1>7 DEF IdsFit, IdsUnique
  <2> QED BY <1>4, <1>5, <1>9, <2>1 DEF IdsFit, IdsUnique
<1>10. ASSUME NEW u \in Callers, NEW r \in Runtimes, NEW e \in lanes'[r],
              Minted(u)', e.id = call'[u].id
       PROVE  call'[u].pc = "registered" /\ e.walk = call'[u].walk /\ r = call'[u].runtime
  <2>1. CASE e \in lanes[r]
    <3>1. call[u].pc = "registered" /\ e.walk = call[u].walk /\ r = call[u].runtime
      BY <1>6, <1>10, <2>1 DEF IdsFit, IdsUnique
    <3> QED BY <1>3, <1>6, <3>1
  <2>2. CASE r = r0 /\ e = entry
    <3>1. call[u].id = call[t].id
      BY <1>2, <1>6, <1>10, <2>2
    <3>2. u = t
      BY <1>6, <1>7, <1>10, <3>1 DEF IdsFit, IdsUnique
    <3> QED BY <1>2, <1>3, <2>2, <3>2
  <2> QED BY <1>5, <2>1, <2>2
<1>11. \A x, u \in Callers : Minted(x)' /\ Minted(u)' /\ call'[x].id = call'[u].id => x = u
  BY <1>6 DEF IdsFit, IdsUnique
<1>12. \A u \in Callers : \A tok \in issued' : Minted(u)' => tok.id # call'[u].id
  BY <1>4, <1>6 DEF IdsFit, IdsUnique
<1>13. IdsUnique'
  BY <1>9, <1>10, <1>11, <1>12 DEF IdsUnique
<1> QED BY <1>8, <1>13 DEF IdsFit

\* The token handed out has the call's own id, and the call is over.
LEMMA IdsReply ==
  ASSUME Typed, IdsFit, NEW t \in Callers, Reply(t)
  PROVE  IdsFit'
<1>1. PICK new : /\ new = [runtime |-> call[t].runtime, id |-> call[t].id, walk |-> call[t].walk]
                 /\ issued' = issued \cup {new}
  BY DEF Reply
<1>2. /\ call[t].pc = "registered" /\ call'[t].pc = "idle" /\ UNCHANGED <<counter, lanes>>
      /\ \A u \in Callers : u # t => call'[u] = call[u]
  BY DEF Reply, Typed, Idle
<1>3. \A u \in Callers : Minted(u)' <=> Minted(u) /\ u # t
  BY <1>2 DEF Minted
<1>4. Minted(t) /\ new.id = call[t].id /\ new.walk = call[t].walk /\ new.runtime = call[t].runtime
  BY <1>1, <1>2 DEF Minted
<1>5. IdsBelowCounter'
  BY <1>1, <1>2, <1>3, <1>4 DEF IdsFit, IdsBelowCounter
<1>6. ASSUME NEW tok \in issued', NEW r \in Runtimes, NEW e \in lanes'[r], e.id = tok.id
      PROVE  e.walk = tok.walk /\ r = tok.runtime
  <2>1. e \in lanes[r]
    BY <1>2
  <2>2. CASE tok \in issued
    BY <1>6, <2>1, <2>2 DEF IdsFit, IdsUnique
  <2>3. CASE tok = new
    BY <1>4, <1>6, <2>1, <2>3 DEF IdsFit, IdsUnique
  <2> QED BY <1>1, <2>2, <2>3
<1>7. \A u \in Callers, r \in Runtimes : \A e \in lanes'[r] :
        Minted(u)' /\ e.id = call'[u].id =>
          call'[u].pc = "registered" /\ e.walk = call'[u].walk /\ r = call'[u].runtime
  BY <1>2, <1>3 DEF IdsFit, IdsUnique
<1>8. ASSUME NEW u \in Callers, NEW tok \in issued', Minted(u)'
      PROVE  tok.id # call'[u].id
  <2>1. Minted(u) /\ u # t /\ call'[u] = call[u]
    BY <1>2, <1>3, <1>8
  <2>2. CASE tok \in issued
    BY <2>1, <2>2 DEF IdsFit, IdsUnique
  <2>3. CASE tok = new
    BY <1>4, <2>1, <2>3 DEF IdsFit, IdsUnique
  <2> QED BY <1>1, <2>2, <2>3
<1>9. \A x, u \in Callers : Minted(x)' /\ Minted(u)' /\ call'[x].id = call'[u].id => x = u
  BY <1>2, <1>3 DEF IdsFit, IdsUnique
<1>10. IdsUnique'
  BY <1>6, <1>7, <1>8, <1>9 DEF IdsUnique
<1> QED BY <1>5, <1>10 DEF IdsFit

\* Every action keeps ids unique.
LEMMA IdsStep ==
  ASSUME Typed, IdsFit, Next
  PROVE  IdsFit'
<1>1. ASSUME NEW t \in Callers, NEW c, call' = [call EXCEPT ![t] = c],
             c.pc \notin {"minted", "registered"}, UNCHANGED <<counter, issued, lanes>>
      PROVE  IdsFit'
  <2>1. \A u \in Callers : Minted(u)' => Minted(u) /\ call'[u] = call[u]
    BY <1>1 DEF Minted, Typed
  <2> QED BY <1>1, <2>1, IdsQuiet
<1>2. ASSUME NEW t \in Callers, NEW r \in Runtimes, NEW w \in Windows, NEW keep \in BOOLEAN,
             GetWindowState(t, r, w, keep)
      PROVE  IdsFit'
  <2>1. PICK c : c = [pc |-> "walking", runtime |-> r, window |-> w, keep |-> keep]
    OBVIOUS
  <2> QED BY <1>1, <1>2, <2>1 DEF GetWindowState
<1>3. ASSUME NEW t \in Callers, WalkFails(t) \/ ObservationOnly(t) \/ PostAtPoint(t)
                                \/ InvokeAndRelease(t) \/ ExpandUnavailable(t)
      PROVE  IdsFit'
  <2>1. call' = [call EXCEPT ![t] = Idle] /\ UNCHANGED <<counter, issued, lanes>>
        /\ Idle.pc = "idle"
    BY <1>3 DEF WalkFails, ObservationOnly, PostAtPoint, InvokeAndRelease, ExpandUnavailable,
                Idle
  <2> QED BY <1>1, <2>1
<1>4. ASSUME NEW t \in Callers, NEW n \in 0..MaxCount, WalkEnds(t, n) PROVE IdsFit'
  <2>1. PICK c : c = [pc |-> "walked", runtime |-> call[t].runtime, window |-> call[t].window,
                      keep |-> call[t].keep, walk |-> Len(found) + 1, id |-> 0]
    OBVIOUS
  <2> QED BY <1>1, <1>4, <2>1 DEF WalkEnds
<1>5. ASSUME NEW t \in Callers, UpdateCache(t) PROVE IdsFit'
  <2>1. call[t] \in Walked
    BY <1>5, CallKnown DEF UpdateCache, Shown
  <2>2. PICK c : c = [call[t] EXCEPT !.pc = "cached"]
    OBVIOUS
  <2>3. c.pc = "cached"
    BY <2>1, <2>2 DEF Walked
  <2> QED BY <1>1, <1>5, <2>2, <2>3 DEF UpdateCache
<1>6. ASSUME NEW t \in Callers, NEW tok \in issued, NEW r \in Runtimes, NEW i \in Indexes,
             Click(t, tok, r, i)
      PROVE  IdsFit'
  <2>1. PICK c : c.pc = "resolved" /\ call' = [call EXCEPT ![t] = c]
    BY <1>6 DEF Click
  <2> QED BY <1>1, <1>6, <2>1 DEF Click
<1>7. ASSUME NEW t \in Callers, Aim(t) \/ RetainElement(t) PROVE IdsFit'
  <2>1. call[t] \in Clicking
    BY <1>7, CallKnown DEF Aim, RetainElement
  <2> DEFINE aimed == [call[t] EXCEPT !.pc = "aimed", !.seen = CachedAt(t)]
             holding == [call[t] EXCEPT !.pc = "holding", !.held = CachedAt(t)]
  <2>2. PICK c \in {aimed, holding, Idle} : call' = [call EXCEPT ![t] = c]
    <3>1. \/ call' = [call EXCEPT ![t] = aimed] \/ call' = [call EXCEPT ![t] = holding]
          \/ call' = [call EXCEPT ![t] = Idle]
      BY <1>7 DEF Aim, RetainElement
    <3> HIDE DEF aimed, holding
    <3> QED BY <3>1
  <2>3. c.pc \in {"idle", "aimed", "holding"}
    <3>1. aimed.pc = "aimed" /\ holding.pc = "holding" /\ Idle.pc = "idle"
      BY <2>1 DEF Clicking, Idle
    <3> HIDE DEF aimed, holding, Idle
    <3> QED BY <2>2, <3>1
  <2>4. UNCHANGED <<counter, issued, lanes>>
    BY <1>7 DEF Aim, RetainElement
  <2> QED BY <1>1, <2>2, <2>3, <2>4
<1>8. ASSUME NEW r \in Runtimes, BeginShutdown(r) \/ FinishShutdown(r) PROVE IdsFit'
  <2>1. UNCHANGED <<counter, issued, call>> /\ \A x \in Runtimes : lanes'[x] \subseteq lanes[x]
    BY <1>8 DEF BeginShutdown, FinishShutdown, Typed
  <2> QED BY <2>1, IdsQuiet DEF Minted
<1> QED BY <1>2, <1>3, <1>4, <1>5, <1>6, <1>7, <1>8, IdsMint, IdsRegister, IdsReply DEF Next

(* A token names one snapshot of one runtime: whatever lane is asked, the  *)
(* entry its id matches is of the walk its client was shown, in the lane   *)
(* of the runtime that issued it, though the id is minted outside the lock *)
(* and the registration of an older snapshot may come later.               *)
THEOREM TokensNameOneSnapshot == Spec => []TokenNamesItsSnapshot
<1>1. Init => IdsFit
  BY DEF Init, IdsFit, IdsBelowCounter, IdsUnique, Minted, Idle
<1>2. IdsFit /\ UNCHANGED vars => IdsFit'
  BY DEF IdsFit, IdsBelowCounter, IdsUnique, Minted, vars
<1>3. Typed /\ IdsFit /\ [Next]_vars => IdsFit'
  BY <1>2, IdsStep
<1>4. IdsFit => TokenNamesItsSnapshot
  BY DEF IdsFit, IdsUnique, TokenNamesItsSnapshot, Matches
<1> QED BY <1>1, <1>3, <1>4, TypedHolds, PTL DEF Spec

-----------------------------------------------------------------------------
(* Where the stale click of TokenHitsItsSnapshot can come from.  The cache *)
(* and the registry disagree between UpdateCache and RegisterSnapshot of   *)
(* one call, and a click may read the cache after the registry; both need  *)
(* a second call on the same window of the same runtime.                   *)
OneCallPerWindow ==
  \A s, t \in Callers :
    /\ s # t
    /\ call[s] # Idle /\ call[t] # Idle
    /\ call[s].runtime = call[t].runtime
    => call[s].window # call[t].window

(* The call has replaced the window's walk in the cache and has still to   *)
(* replace the window's snapshot in the registry.                          *)
Renews(c) == c.pc \in {"cached", "minted"}
Renewing(r, w) ==
  \E t \in Callers : Renews(call[t]) /\ call[t].runtime = r /\ call[t].window = w

(* A lane's entry is of the cached walk, unless a call is renewing it.     *)
LaneFresh ==
  \A r \in Runtimes : \A e \in lanes[r] :
    caches[r][e.window] = e.walk \/ Renewing(r, e.window)

(* A call that renews a window has cached its own walk; a click's window   *)
(* still has the walk that the click means.                                *)
FreshIn(c, cache) ==
  /\ Renews(c) => cache[c.runtime][c.window] = c.walk
  /\ c.pc \in {"resolved", "aimed", "holding"} => cache[c.runtime][c.window] = c.meant
  /\ c.pc = "holding" => c.held = c.meant
CallsFresh == \A t \in Callers : FreshIn(call[t], caches)

Fresh == LaneFresh /\ CallsFresh

\* A step of one call that leaves the cache alone and adds no entry.
LEMMA FreshQuiet ==
  ASSUME Typed, Fresh, NEW t \in Callers, NEW c, call' = [call EXCEPT ![t] = c],
         UNCHANGED <<caches, lanes>>,
         FreshIn(c, caches),
         Renews(call[t]) => /\ Renews(c) /\ c.runtime = call[t].runtime
                            /\ c.window = call[t].window
  PROVE  Fresh'
<1>1. call'[t] = c /\ \A u \in Callers : u # t => call'[u] = call[u]
  BY DEF Typed
<1>2. CallsFresh'
  BY <1>1, Zenon DEF Fresh, CallsFresh, FreshIn, Renews
<1>3. ASSUME NEW r \in Runtimes, NEW w \in Windows, Renewing(r, w) PROVE Renewing(r, w)'
  <2>1. PICK u \in Callers : Renews(call[u]) /\ call[u].runtime = r /\ call[u].window = w
    BY <1>3 DEF Renewing
  <2>2. Renews(call'[u]) /\ call'[u].runtime = r /\ call'[u].window = w
    BY <1>1, <2>1
  <2> QED BY <2>2 DEF Renewing, Renews
<1>4. ASSUME NEW r \in Runtimes, NEW e \in lanes'[r]
      PROVE  caches'[r][e.window] = e.walk \/ Renewing(r, e.window)'
  <2>1. e \in lanes[r] /\ e.window \in Windows
    BY DEF Typed, Entry
  <2> QED BY <1>3, <2>1 DEF Fresh, LaneFresh
<1> QED BY <1>2, <1>4 DEF Fresh, LaneFresh

\* Replacing a walk touches no click and no other renewal of the window.
LEMMA FreshUpdateCache ==
  ASSUME Typed, Fresh, OneCallPerWindow, NEW t \in Callers, UpdateCache(t)
  PROVE  Fresh'
<1>1. call[t] \in Walked /\ call[t].pc = "walked" /\ call[t] # Idle
  BY CallKnown DEF UpdateCache, Shown, Idle
<1>2. PICK r, w, n : r = call[t].runtime /\ w = call[t].window /\ n = call[t].walk
  OBVIOUS
<1>3. r \in Runtimes /\ w \in Windows
  BY <1>1, <1>2 DEF Walked
<1>4. PICK c : c = [call[t] EXCEPT !.pc = "cached"]
  OBVIOUS
<1>5. c.pc = "cached" /\ c.runtime = r /\ c.window = w /\ c.walk = n
  BY <1>1, <1>2, <1>4 DEF Walked
<1>6. call'[t] = c /\ \A u \in Callers : u # t => call'[u] = call[u]
  BY <1>4 DEF UpdateCache, Typed
<1>7. caches' = [caches EXCEPT ![r][w] = n] /\ lanes' = lanes
  BY <1>2 DEF UpdateCache
<1>8. /\ caches'[r][w] = n
      /\ \A x \in Runtimes, v \in Windows : <<x, v>> # <<r, w>> => caches'[x][v] = caches[x][v]
  BY <1>3, <1>7, Zenon DEF Typed
<1>9. ASSUME NEW u \in Callers PROVE FreshIn(call'[u], caches')
  <2>1. CASE u = t
    BY <1>5, <1>6, <1>8, <2>1 DEF FreshIn, Renews
  <2>2. CASE u # t /\ (Renews(call[u]) \/ call[u].pc \in {"resolved", "aimed", "holding"})
    <3>1. call[u] \in Walked \cup Clicking /\ call[u] # Idle
      BY <2>2, CallKnown DEF Renews, Shown, Idle
    <3>2. call[u].runtime \in Runtimes /\ call[u].window \in Windows
      BY <3>1 DEF Walked, Clicking
    <3>3. <<call[u].runtime, call[u].window>> # <<r, w>>
      BY <1>1, <1>2, <2>2, <3>1 DEF OneCallPerWindow
    <3>4. caches'[call[u].runtime][call[u].window] = caches[call[u].runtime][call[u].window]
      BY <1>8, <3>2, <3>3
    <3> QED BY <1>6, <2>2, <3>4 DEF Fresh, CallsFresh, FreshIn
  <2>3. CASE u # t /\ ~(Renews(call[u]) \/ call[u].pc \in {"resolved", "aimed", "holding"})
    BY <1>6, <2>3 DEF FreshIn
  <2> QED BY <2>1, <2>2, <2>3
<1>10. ASSUME NEW x \in Runtimes, NEW e \in lanes'[x]
       PROVE  caches'[x][e.window] = e.walk \/ Renewing(x, e.window)'
  <2>1. e \in lanes[x] /\ e.window \in Windows
    BY <1>7 DEF Typed, Entry
  <2>2. CASE x = r /\ e.window = w
    <3>1. Renews(call'[t]) /\ call'[t].runtime = x /\ call'[t].window = e.window
      BY <1>5, <1>6, <2>2 DEF Renews
    <3> QED BY <3>1 DEF Renewing, Renews
  <2>3. CASE ~(x = r /\ e.window = w)
    <3>1. CASE caches[x][e.window] = e.walk
      BY <1>8, <2>1, <2>3, <3>1
    <3>2. CASE Renewing(x, e.window)
      <4>1. PICK u \in Callers :
              Renews(call[u]) /\ call[u].runtime = x /\ call[u].window = e.window
        BY <3>2 DEF Renewing
      <4>2. Renews(call'[u]) /\ call'[u].runtime = x /\ call'[u].window = e.window
        BY <1>1, <1>6, <4>1 DEF Renews
      <4> QED BY <4>2 DEF Renewing, Renews
    <3> QED BY <2>1, <3>1, <3>2 DEF Fresh, LaneFresh
  <2> QED BY <2>2, <2>3
<1> QED BY <1>9, <1>10 DEF Fresh, CallsFresh, LaneFresh, FreshIn, Renews

\* The snapshot that is registered is of the walk its call has cached.
LEMMA FreshRegister ==
  ASSUME Typed, Fresh, NEW t \in Callers, RegisterSnapshot(t)
  PROVE  Fresh'
<1>1. call[t] \in Walked /\ call[t].pc = "minted"
  BY CallKnown DEF RegisterSnapshot, Shown
<1>2. PICK r, w : r = call[t].runtime /\ w = call[t].window
  OBVIOUS
<1>3. r \in Runtimes /\ w \in Windows /\ caches[r][w] = call[t].walk
  BY <1>1, <1>2 DEF Walked, Fresh, CallsFresh, FreshIn, Renews
<1>4. PICK c : c = [call[t] EXCEPT !.pc = "registered"]
  OBVIOUS
<1>5. c.pc = "registered"
  BY <1>1, <1>4 DEF Walked
<1>6. call'[t] = c /\ \A u \in Callers : u # t => call'[u] = call[u]
  BY <1>4 DEF RegisterSnapshot, Typed
<1>7. caches' = caches
  BY DEF RegisterSnapshot
<1>8. CallsFresh'
  <2>1. ASSUME NEW u \in Callers PROVE FreshIn(call'[u], caches)
    BY <1>5, <1>6 DEF Fresh, CallsFresh, FreshIn, Renews
  <2> QED BY <1>7, <2>1 DEF CallsFresh, FreshIn, Renews
<1>9. ASSUME NEW x \in Runtimes, NEW v \in Windows, Renewing(x, v), <<x, v>> # <<r, w>>
      PROVE  Renewing(x, v)'
  <2>1. PICK u \in Callers : Renews(call[u]) /\ call[u].runtime = x /\ call[u].window = v
    BY <1>9 DEF Renewing
  <2>2. u # t
    BY <1>2, <1>9, <2>1
  <2>3. Renews(call'[u]) /\ call'[u].runtime = x /\ call'[u].window = v
    BY <1>6, <2>1, <2>2
  <2> QED BY <2>3 DEF Renewing, Renews
<1>10. NewEntry(t).window = w /\ NewEntry(t).walk = call[t].walk
  BY <1>2 DEF NewEntry
<1>11. \A e \in NewLane(t) : e = NewEntry(t) \/ (e \in lanes[r] /\ e.window # w)
  BY <1>2 DEF NewLane, Evicted, Retained
<1>12. ASSUME NEW x \in Runtimes, NEW e \in lanes'[x]
       PROVE  caches'[x][e.window] = e.walk \/ Renewing(x, e.window)'
  <2>1. lanes'[x] = IF x = r THEN NewLane(t) ELSE lanes[x]
    BY <1>2, RegisteredLane DEF Typed
  <2>2. CASE x = r /\ e = NewEntry(t)
    BY <1>3, <1>7, <1>10, <2>2
  <2>3. CASE e \in lanes[x] /\ <<x, e.window>> # <<r, w>>
    <3>1. e.window \in Windows
      BY <2>3 DEF Typed, Entry
    <3> QED BY <1>7, <1>9, <2>3, <3>1 DEF Fresh, LaneFresh
  <2>4. CASE x # r
    <3>1. e \in lanes[x]
      BY <2>1, <2>4
    <3> QED BY <2>3, <2>4, <3>1
  <2> QED BY <1>11, <2>1, <2>2, <2>3, <2>4
<1> QED BY <1>8, <1>12 DEF Fresh, LaneFresh

\* A click that finds its snapshot finds it of the cached walk: a call that
\* is renewing the window would be a second one on it.
LEMMA FreshClick ==
  ASSUME Typed, Fresh, TokenNamesItsSnapshot, OneCallPerWindow',
         NEW t \in Callers, NEW tok \in issued, NEW r \in Runtimes, NEW i \in Indexes,
         Click(t, tok, r, i)
  PROVE  Fresh'
<1>1. PICK e \in Matches(r, tok.id) :
        call' = [call EXCEPT ![t] =
            [pc |-> "resolved", runtime |-> r, window |-> e.window,
             index |-> i, meant |-> tok.walk, seen |-> NoWalk, held |-> NoWalk]]
  BY DEF Click
<1>2. e \in lanes[r] /\ e.walk = tok.walk /\ e.window \in Windows
  BY DEF Matches, TokenNamesItsSnapshot, Typed, Entry
<1>3. PICK c : c = [pc |-> "resolved", runtime |-> r, window |-> e.window,
                    index |-> i, meant |-> tok.walk, seen |-> NoWalk, held |-> NoWalk]
  OBVIOUS
<1>4. c.pc = "resolved" /\ c.runtime = r /\ c.window = e.window /\ c.meant = tok.walk
      /\ c # Idle
  BY <1>3 DEF Idle
<1>5. call' = [call EXCEPT ![t] = c] /\ call[t] = Idle /\ UNCHANGED <<caches, lanes>>
  BY <1>1, <1>3 DEF Click
<1>6. call'[t] = c /\ \A u \in Callers : u # t => call'[u] = call[u]
  BY <1>5 DEF Typed
<1>7. ~Renewing(r, e.window)
  <2> SUFFICES ASSUME NEW u \in Callers, Renews(call[u]), call[u].runtime = r,
                      call[u].window = e.window
               PROVE  FALSE
    BY DEF Renewing
  <2>1. u # t /\ call[u] # Idle
    BY <1>5 DEF Renews, Idle
  <2> QED BY <1>4, <1>6, <2>1 DEF OneCallPerWindow
<1>8. caches[r][e.window] = tok.walk
  BY <1>2, <1>7 DEF Fresh, LaneFresh
<1>9. FreshIn(c, caches)
  BY <1>4, <1>8 DEF FreshIn, Renews
<1>10. ~Renews(call[t])
  BY <1>5 DEF Renews, Idle
<1> QED BY <1>5, <1>9, <1>10, FreshQuiet

\* Every step of calls that never meet on a window keeps the two tables of
\* one mind.
LEMMA FreshStep ==
  ASSUME Typed, Fresh, TokenNamesItsSnapshot, OneCallPerWindow, OneCallPerWindow', Next
  PROVE  Fresh'
<1>1. ASSUME NEW t \in Callers, NEW c, call' = [call EXCEPT ![t] = c],
             c.pc \in {"idle", "walking", "walked"}, ~Renews(call[t]),
             UNCHANGED <<caches, lanes>>
      PROVE  Fresh'
  <2>1. FreshIn(c, caches)
    BY <1>1 DEF FreshIn, Renews
  <2> QED BY <1>1, <2>1, FreshQuiet
<1>2. ASSUME NEW t \in Callers, NEW r \in Runtimes, NEW w \in Windows, NEW keep \in BOOLEAN,
             GetWindowState(t, r, w, keep)
      PROVE  Fresh'
  <2>1. PICK c : c = [pc |-> "walking", runtime |-> r, window |-> w, keep |-> keep]
    OBVIOUS
  <2>2. ~Renews(call[t])
    BY <1>2 DEF GetWindowState, Renews, Idle
  <2> QED BY <1>1, <1>2, <2>1, <2>2 DEF GetWindowState
<1>3. ASSUME NEW t \in Callers, WalkFails(t) \/ ObservationOnly(t) \/ PostAtPoint(t)
                                \/ InvokeAndRelease(t) \/ ExpandUnavailable(t) \/ Reply(t)
      PROVE  Fresh'
  <2>1. call' = [call EXCEPT ![t] = Idle] /\ UNCHANGED <<caches, lanes>> /\ Idle.pc = "idle"
    BY <1>3 DEF WalkFails, ObservationOnly, PostAtPoint, InvokeAndRelease, ExpandUnavailable,
                Reply, Idle
  <2>2. ~Renews(call[t])
    BY <1>3 DEF WalkFails, ObservationOnly, PostAtPoint, InvokeAndRelease, ExpandUnavailable,
                Reply, Renews
  <2> QED BY <1>1, <2>1, <2>2
<1>4. ASSUME NEW t \in Callers, NEW n \in 0..MaxCount, WalkEnds(t, n) PROVE Fresh'
  <2>1. PICK c : c = [pc |-> "walked", runtime |-> call[t].runtime, window |-> call[t].window,
                      keep |-> call[t].keep, walk |-> Len(found) + 1, id |-> 0]
    OBVIOUS
  <2>2. ~Renews(call[t])
    BY <1>4 DEF WalkEnds, Renews
  <2> QED BY <1>1, <1>4, <2>1, <2>2 DEF WalkEnds
<1>5. ASSUME NEW t \in Callers, MintSnapshot(t) PROVE Fresh'
  <2>1. call[t] \in Walked /\ call[t].pc = "cached"
    BY <1>5, CallKnown DEF MintSnapshot, Shown
  <2>2. PICK c : c = [call[t] EXCEPT !.pc = "minted", !.id = NextId]
    OBVIOUS
  <2>3. c.pc = "minted" /\ c.runtime = call[t].runtime /\ c.window = call[t].window
        /\ c.walk = call[t].walk
    BY <2>1, <2>2 DEF Walked
  <2>4. FreshIn(c, caches) /\ Renews(c)
    BY <2>1, <2>3 DEF Fresh, CallsFresh, FreshIn, Renews
  <2>5. call' = [call EXCEPT ![t] = c] /\ UNCHANGED <<caches, lanes>>
    BY <1>5, <2>2 DEF MintSnapshot
  <2> QED BY <2>3, <2>4, <2>5, FreshQuiet
<1>6. ASSUME NEW t \in Callers, Aim(t) PROVE Fresh'
  <2>1. call[t] \in Clicking /\ call[t].pc = "resolved"
    BY <1>6, CallKnown DEF Aim
  <2>2. PICK c : c = [call[t] EXCEPT !.pc = "aimed", !.seen = CachedAt(t)]
    OBVIOUS
  <2>3. c.pc = "aimed" /\ c.runtime = call[t].runtime /\ c.window = call[t].window
        /\ c.meant = call[t].meant
    BY <2>1, <2>2 DEF Clicking
  <2>4. FreshIn(c, caches) /\ ~Renews(call[t])
    BY <2>1, <2>3 DEF Fresh, CallsFresh, FreshIn, Renews
  <2>5. UNCHANGED <<caches, lanes>>
    BY <1>6 DEF Aim
  <2>6. CASE IsCached(t)
    <3>1. call' = [call EXCEPT ![t] = c]
      BY <1>6, <2>2, <2>6 DEF Aim
    <3> QED BY <2>4, <2>5, <3>1, FreshQuiet
  <2>7. CASE ~IsCached(t)
    <3>1. call' = [call EXCEPT ![t] = Idle] /\ Idle.pc = "idle"
      BY <1>6, <2>7 DEF Aim, Idle
    <3> QED BY <1>1, <2>4, <2>5, <3>1
  <2> QED BY <2>6, <2>7
<1>7. ASSUME NEW t \in Callers, RetainElement(t) PROVE Fresh'
  <2>1. call[t] \in Clicking /\ call[t].pc = "aimed"
    BY <1>7, CallKnown DEF RetainElement
  <2>2. PICK c : c = [call[t] EXCEPT !.pc = "holding", !.held = CachedAt(t)]
    OBVIOUS
  <2>3. c.pc = "holding" /\ c.runtime = call[t].runtime /\ c.window = call[t].window
        /\ c.meant = call[t].meant /\ c.held = CachedAt(t)
    BY <2>1, <2>2 DEF Clicking
  <2>4. FreshIn(c, caches) /\ ~Renews(call[t])
    BY <2>1, <2>3 DEF Fresh, CallsFresh, FreshIn, Renews, CachedAt
  <2>5. call' = [call EXCEPT ![t] = c] /\ UNCHANGED <<caches, lanes>>
    BY <1>7, <2>2 DEF RetainElement
  <2> QED BY <2>4, <2>5, FreshQuiet
<1>8. ASSUME NEW r \in Runtimes, BeginShutdown(r) \/ FinishShutdown(r) PROVE Fresh'
  <2>1. UNCHANGED <<caches, call>> /\ \A x \in Runtimes : lanes'[x] \subseteq lanes[x]
    BY <1>8 DEF BeginShutdown, FinishShutdown, Typed
  <2>2. LaneFresh'
    BY <2>1 DEF Fresh, LaneFresh, Renewing
  <2> QED BY <2>1, <2>2 DEF Fresh, CallsFresh
<1> QED BY <1>2, <1>3, <1>4, <1>5, <1>6, <1>7, <1>8, FreshUpdateCache, FreshRegister,
           FreshClick DEF Next

(* While no two calls meet on a window of a runtime, what register_snapshot *)
(* promises is so: a click that holds an element holds the one its client   *)
(* was shown, with any number of clients, runtimes and windows.  The run    *)
(* that violates TokenHitsItsSnapshot therefore needs a click that overlaps *)
(* a get_window_state of its own window.                                    *)
THEOREM SpacedClicksHit == Spec /\ []OneCallPerWindow => []TokenHitsItsSnapshot
<1>1. Init => Fresh
  BY DEF Init, Fresh, LaneFresh, CallsFresh, FreshIn, Renews, Idle
<1>2. Fresh /\ UNCHANGED vars => Fresh'
  BY DEF Fresh, LaneFresh, CallsFresh, FreshIn, Renews, Renewing, vars
<1>3. /\ Typed /\ TokenNamesItsSnapshot /\ OneCallPerWindow /\ OneCallPerWindow'
      /\ Fresh /\ [Next]_vars
      => Fresh'
  BY <1>2, FreshStep
<1>4. Fresh => TokenHitsItsSnapshot
  BY DEF Fresh, CallsFresh, FreshIn, TokenHitsItsSnapshot
<1> QED BY <1>1, <1>3, <1>4, TypedHolds, TokensNameOneSnapshot, PTL DEF Spec
=============================================================================
